---- MODULE Spec2Model ----
(***************************************************************************)
(* Model of the world-building app's generation hook (useGeminiApi):       *)
(* text sanitising (cleanText), the text-generation client (generateText), *)
(* the image client with its description fallback                          *)
(* (generateImageWithFallback / generateImageDescription) and the          *)
(* sequential orchestration (generateWorldContent /                        *)
(* generateAllVisualContent).                                              *)
(*                                                                         *)
(* Strings are sequences of one-character strings.  A JavaScript value is  *)
(* a record [t |-> tag, v |-> sequence]: "undef", "str" (v = characters),  *)
(* "arr" (v = elements, each "r" for an object record or "n" for null),    *)
(* "obj" and "null".                                                       *)
(***************************************************************************)
EXTENDS Integers, Sequences, FiniteSets, TLC

\* ------------------------------------------------------------------ bounds
MaxLen == 4          \* longest input string given to cleanText in SpecClean
MaxFaults == 2       \* deviations from the nominal response the environment may inject in one run
MaxRuns == 2         \* invocations of generateWorldContent in SpecRerun
MaxLines == 2        \* longest text handed to the document exporter, in lines
MaxExports == 2      \* clicks on the export button
MaxPrompt == 202     \* longest prompt given to generateImageDescription in SpecEcho

\* ------------------------------------------------------- program constants
CharacterSlots == 6
ScenarioSlots == 3
MaxHashes == 6
CollapseFrom == 3

\* ---------------------------------------------------------------- strings
NL == "\n"
Alphabet == {"*", "_", "#", NL, " ", "a"}
IsSpace(c) == c \in {" ", NL}

Strings(n) == UNION {[1..k -> Alphabet] : k \in 0..n}

RECURSIVE RunLen(_, _, _)
\* length of the maximal run of characters satisfying "c # stop" from position i
RunLen(s, i, stop) ==
  IF i > Len(s) \/ s[i] = stop THEN 0 ELSE 1 + RunLen(s, i + 1, stop)

AllAt(s, i, k, c) == i + k - 1 <= Len(s) /\ \A j \in i..(i + k - 1) : s[j] = c

RECURSIVE StripPairedFrom(_, _, _, _)
\* text.replace(/D([^c]+)D/g, '$1') where D is k copies of c, scanning from i
StripPairedFrom(s, i, c, k) ==
  IF i > Len(s) THEN <<>>
  ELSE LET m == RunLen(s, i + k, c)
       IN IF AllAt(s, i, k, c) /\ m >= 1 /\ AllAt(s, i + k + m, k, c)
          THEN SubSeq(s, i + k, i + k + m - 1) \o StripPairedFrom(s, i + 2 * k + m, c, k)
          ELSE <<s[i]>> \o StripPairedFrom(s, i + 1, c, k)

StripPaired(s, c, k) == StripPairedFrom(s, 1, c, k)

RECURSIVE HashRun(_, _, _)
\* number of '#' matched greedily by #{1,6} from position i
HashRun(s, i, n) ==
  IF n = MaxHashes \/ i > Len(s) \/ s[i] # "#" THEN n ELSE HashRun(s, i + 1, n + 1)

RECURSIVE SpaceRun(_, _)
SpaceRun(s, i) == IF i > Len(s) \/ ~IsSpace(s[i]) THEN 0 ELSE 1 + SpaceRun(s, i + 1)

RECURSIVE StripHeadingsFrom(_, _)
\* text.replace(/^#{1,6}\s*/gm, '') scanning from i
StripHeadingsFrom(s, i) ==
  IF i > Len(s) THEN <<>>
  ELSE LET atLineStart == i = 1 \/ s[i - 1] = NL
           h == HashRun(s, i, 0)
           w == SpaceRun(s, i + h)
       IN IF atLineStart /\ h >= 1
          THEN StripHeadingsFrom(s, i + h + w)
          ELSE <<s[i]>> \o StripHeadingsFrom(s, i + 1)

StripHeadings(s) == StripHeadingsFrom(s, 1)

RECURSIVE NewlineRun(_, _)
NewlineRun(s, i) == IF i > Len(s) \/ s[i] # NL THEN 0 ELSE 1 + NewlineRun(s, i + 1)

RECURSIVE CollapseNewlinesFrom(_, _)
\* text.replace(/\n{3,}/g, '\n\n') scanning from i
CollapseNewlinesFrom(s, i) ==
  IF i > Len(s) THEN <<>>
  ELSE LET r == NewlineRun(s, i)
       IN IF r >= CollapseFrom
          THEN <<NL, NL>> \o CollapseNewlinesFrom(s, i + r)
          ELSE <<s[i]>> \o CollapseNewlinesFrom(s, i + 1)

CollapseNewlines(s) == CollapseNewlinesFrom(s, 1)

RECURSIVE TrimLeft(_)
TrimLeft(s) == IF s # <<>> /\ IsSpace(Head(s)) THEN TrimLeft(Tail(s)) ELSE s

RECURSIVE TrimRight(_)
TrimRight(s) ==
  IF s # <<>> /\ IsSpace(s[Len(s)]) THEN TrimRight(SubSeq(s, 1, Len(s) - 1)) ELSE s

Trim(s) == TrimRight(TrimLeft(s))

\* variant: single-asterisk emphasis is left in place
cleanChain_keepsItalic(s) ==
  Trim(CollapseNewlines(
    StripPaired(StripPaired(StripHeadings(StripPaired(s, "*", 2)), "_", 2), "_", 1)))

\* cleanText on a string that is not empty
cleanChain(s) ==
  Trim(CollapseNewlines(
    StripPaired(StripPaired(StripHeadings(StripPaired(StripPaired(s, "*", 2), "*", 1)), "_", 2), "_", 1)))

\* cleanText: `if (!text) return ''` covers undefined and the empty string
cleanText(text) == IF text = <<>> THEN <<>> ELSE cleanChain(text)

\* ------------------------------------------------------------ JS values
Undef == [t |-> "undef", v |-> <<>>]
Null == [t |-> "null", v |-> <<>>]
Obj == [t |-> "obj", v |-> <<>>]
Num == [t |-> "num", v |-> <<>>]
Str(s) == [t |-> "str", v |-> s]
Arr(l) == [t |-> "arr", v |-> l]

\* Array.isArray
IsArray(x) == x.t = "arr"

\* cleanText applied to what generateText returned (a string or undefined)
cleanTextOf(x) == IF x.t = "undef" THEN <<>> ELSE cleanText(x.v)

\* --------------------------------------------------------------- JSON text
RECURSIVE DropSpaces(_)
DropSpaces(s) ==
  IF s = <<>> THEN <<>>
  ELSE IF IsSpace(Head(s)) THEN DropSpaces(Tail(s)) ELSE <<Head(s)>> \o DropSpaces(Tail(s))

Elements == {"r", "n"}

\* a well-formed element list: e (, e)*
IsElementList(s) ==
  /\ Len(s) % 2 = 1
  /\ \A j \in 1..Len(s) : IF j % 2 = 1 THEN s[j] \in Elements ELSE s[j] = ","

ElementsOf(s) == [j \in 1..((Len(s) + 1) \div 2) |-> s[2 * j - 1]]

\* JSON.parse: [ok |-> FALSE] stands for the SyntaxError it throws
JSONParse(text) ==
  LET s == DropSpaces(text)
  IN IF s = <<"r">> THEN [ok |-> TRUE, val |-> Obj]
     ELSE IF s = <<"n">> THEN [ok |-> TRUE, val |-> Null]
     ELSE IF s = <<"7">> THEN [ok |-> TRUE, val |-> Num]
     ELSE IF Len(s) >= 2 /\ s[1] = "\"" /\ s[Len(s)] = "\""
               /\ \A j \in 2..(Len(s) - 1) : s[j] # "\""
          THEN [ok |-> TRUE, val |-> Str(SubSeq(s, 2, Len(s) - 1))]
     ELSE IF Len(s) >= 2 /\ s[1] = "[" /\ s[Len(s)] = "]"
          THEN LET inner == SubSeq(s, 2, Len(s) - 1)
               IN IF inner = <<>> THEN [ok |-> TRUE, val |-> Arr(<<>>)]
                  ELSE IF IsElementList(inner) THEN [ok |-> TRUE, val |-> Arr(ElementsOf(inner))]
                  ELSE [ok |-> FALSE, val |-> Undef]
     ELSE [ok |-> FALSE, val |-> Undef]

RECURSIVE JoinElements(_)
JoinElements(l) ==
  IF l = <<>> THEN <<>>
  ELSE IF Len(l) = 1 THEN <<l[1]>> ELSE <<l[1], ",">> \o JoinElements(Tail(l))

\* the JSON text of an array of elements, as the service would send it
ArrayText(l) == <<"[">> \o JoinElements(l) \o <<"]">>

\* ------------------------------------------------------ upstream responses
\* Text endpoint.  depth says how far candidates[0].content.parts[0].text is exposed:
\* 0 no candidates, 1 candidates empty, 2 no content, 3 no parts, 4 parts empty,
\* 5 parts[0] without text, 6 text present.
FullDepth == 6
StatusOk == 200
StatusError == 500

TextResp(net, status, json, depth, text) ==
  [net |-> net, status |-> status, json |-> json, depth |-> depth, text |-> text]

NoTextResp == TextResp("none", 0, FALSE, 0, <<>>)

GoodText(text) == TextResp("ok", StatusOk, TRUE, FullDepth, text)

ResponseOk(resp) == resp.status >= 200 /\ resp.status <= 299

\* error messages: Error.message, with the status where the message embeds it
Msg(text, status) == [wrapped |-> FALSE, text |-> text, status |-> status]
NoMsg == Msg("", 0)
Wrap(m) == [m EXCEPT !.wrapped = TRUE]

Resolved(val) == [ok |-> TRUE, val |-> val, err |-> NoMsg]
Rejected(m) == [ok |-> FALSE, val |-> Undef, err |-> m]

\* "r" is the JSON text of an object, "n" of null, "7" of a number

\* variant: the JSON.parse of a schema call is not guarded
generateTextBody_parseThrows(resp, schema) ==
  IF ~ResponseOk(resp) THEN Rejected(Msg("API request failed with status", resp.status))
  ELSE IF ~resp.json THEN Rejected(Msg("Unexpected token in JSON", 0))
  ELSE IF resp.depth <= 2 THEN Rejected(Msg("Invalid response structure from API", 0))
  ELSE IF resp.depth <= 4 THEN Rejected(Msg("Cannot read properties of undefined", 0))
  ELSE LET content == IF resp.depth = 5 THEN Undef ELSE Str(resp.text)
           parsed == IF content.t = "undef" THEN [ok |-> FALSE, val |-> Undef]
                     ELSE JSONParse(content.v)
       IN IF schema
          THEN IF parsed.ok THEN Resolved(parsed.val)
               ELSE Rejected(Msg("Unexpected token in JSON", 0))
          ELSE Resolved(content)

\* the body of generateText's try block after fetch has answered
generateTextBody(resp, schema) ==
  IF ~ResponseOk(resp) THEN Rejected(Msg("API request failed with status", resp.status))
  ELSE IF ~resp.json THEN Rejected(Msg("Unexpected token in JSON", 0))
  ELSE IF resp.depth <= 2 THEN Rejected(Msg("Invalid response structure from API", 0))
  ELSE IF resp.depth <= 4 THEN Rejected(Msg("Cannot read properties of undefined", 0))
  ELSE LET content == IF resp.depth = 5 THEN Undef ELSE Str(resp.text)
           parsed == IF content.t = "undef" THEN [ok |-> FALSE, val |-> Undef]
                     ELSE JSONParse(content.v)
       IN IF schema /\ parsed.ok THEN Resolved(parsed.val) ELSE Resolved(content)

\* generateText once its single fetch has settled with resp
generateText(resp, schema) ==
  LET r == IF resp.net = "fail" THEN Rejected(Msg("Failed to fetch", 0))
           ELSE generateTextBody(resp, schema)
  IN IF r.ok THEN r ELSE Rejected(Wrap(r.err))

\* Image endpoint.  predictions: "absent", "empty", "nobytes" (predictions[0] without
\* bytesBase64Encoded) or "bytes".
ImgResp(net, status, json, predictions) ==
  [net |-> net, status |-> status, json |-> json, predictions |-> predictions]

GoodImage == ImgResp("ok", StatusOk, TRUE, "bytes")

\* -------------------------------------------------------------- prompts
Prompt(kind, index) == [kind |-> kind, index |-> index]
NoPrompt == Prompt("none", 0)

EchoLen == 200
SynthLen == 300

\* prompt.substring(0, n) + '...'
Clip(prompt, n) == [src |-> prompt, take |-> n, ellipsis |-> TRUE]
NoClip == [src |-> NoPrompt, take |-> 0, ellipsis |-> FALSE]

createWorldImagePrompt == Prompt("concept", 0)

\* character is "r" here; a null record makes the template throw (see beginCharacter)
createCharacterImagePrompt(i) == Prompt("character", i)

createScenarioImagePrompt(i) == Prompt("scenario", i)

\* predictions[0].bytesBase64Encoded of a successful answer: the picture drawn for prompt
BytesFor(prompt) == <<"b", prompt.kind>> \o [j \in 1..prompt.index |-> "i"]

\* ---------------------------------------------------------- image results
NoResult ==
  [type |-> "none", isImage |-> FALSE, isDescription |-> FALSE, image |-> <<>>,
   brief |-> FALSE, description |-> <<>>, synth |-> NoClip, prompt |-> NoClip]

\* {type, image, isImage: true}
ImageResult(type, bytes) ==
  [NoResult EXCEPT !.type = type, !.isImage = TRUE, !.image = bytes]

\* variant: the echo is cut like the synthesized description, at 300 characters
BriefResult_longEcho(type, text, prompt) ==
  [NoResult EXCEPT !.type = type, !.isDescription = TRUE, !.brief = TRUE,
                   !.description = text, !.prompt = Clip(prompt, SynthLen)]

\* {type, description: cleanText(description), prompt, isDescription: true}
BriefResult(type, text, prompt) ==
  [NoResult EXCEPT !.type = type, !.isDescription = TRUE, !.brief = TRUE,
                   !.description = text, !.prompt = Clip(prompt, EchoLen)]

\* {type, description: `Visual concept for ...`, prompt, isDescription: true}
SynthResult(type, prompt) ==
  [NoResult EXCEPT !.type = type, !.isDescription = TRUE,
                   !.synth = Clip(prompt, SynthLen), !.prompt = Clip(prompt, EchoLen)]

\* variant: the fallback has no catch of its own and ends without a result
generateImageDescription_rethrows(r, prompt, type) ==
  IF r.ok THEN BriefResult(type, cleanTextOf(r.val), prompt) ELSE NoResult

\* generateImageDescription once its generateText call has settled with r
generateImageDescription(r, prompt, type) ==
  IF r.ok THEN BriefResult(type, cleanTextOf(r.val), prompt) ELSE SynthResult(type, prompt)

\* variant: a successful answer is taken for an image whatever its payload
ImageObtained_anyPayload(resp) ==
  /\ resp.net = "ok"
  /\ ResponseOk(resp)

\* the try block of generateImageWithFallback once fetch has settled:
\* TRUE when it returns the image, FALSE when it throws into the catch
ImageObtained(resp) ==
  /\ resp.net = "ok"
  /\ ResponseOk(resp)
  /\ resp.json
  /\ resp.predictions = "bytes"

\* ------------------------------------------------------------ aggregate
Slot(l, c, f) == [loading |-> l, completed |-> c, failed |-> f]
FreshSlot == Slot(FALSE, FALSE, FALSE)
LoadingSlot == Slot(TRUE, FALSE, FALSE)

\* variant: a completed slot is never marked failed
DoneSlot_neverFailed(result) == Slot(FALSE, TRUE, FALSE)

\* {loading: false, completed: true, failed: !result.isImage}
DoneSlot(result) == Slot(FALSE, TRUE, ~result.isImage)

\* variant: the reset marks the concept slot as loading
ResetProgress_conceptLoading ==
  [concept |-> LoadingSlot,
   characters |-> [j \in 1..CharacterSlots |-> FreshSlot],
   scenarios |-> [j \in 1..ScenarioSlots |-> FreshSlot]]

ResetProgress ==
  [concept |-> FreshSlot,
   characters |-> [j \in 1..CharacterSlots |-> FreshSlot],
   scenarios |-> [j \in 1..ScenarioSlots |-> FreshSlot]]

NoWorld ==
  [worldNarrative |-> <<>>, gameBookIdeas |-> <<>>, customizationOptions |-> <<>>,
   characterConcepts |-> <<>>, conceptualMaps |-> <<>>,
   conceptImage |-> Null, conceptImageDescription |-> NoResult,
   characterVisuals |-> <<>>, scenarioVisuals |-> <<>>]

\* variant: the value is taken as it came, without Array.isArray
ArrayOrEmpty_asReturned(x) == x.v

\* Array.isArray(x) ? x : []
ArrayOrEmpty(x) == IF IsArray(x) THEN x.v ELSE <<>>

\* the base world data built after the five text calls
buildWorldData(g) ==
  [NoWorld EXCEPT !.worldNarrative = cleanTextOf(g.worldNarrative),
                  !.gameBookIdeas = ArrayOrEmpty(g.gameBookIdeas),
                  !.customizationOptions = ArrayOrEmpty(g.customizationOptions),
                  !.characterConcepts = ArrayOrEmpty(g.characterConcepts),
                  !.conceptualMaps = cleanTextOf(g.conceptualMaps)]

NoLocals ==
  [generateVisuals |-> FALSE, worldNarrative |-> Undef, gameBookIdeas |-> Undef,
   customizationOptions |-> Undef, characterConcepts |-> Undef, conceptualMaps |-> Undef]

NoVisual == [visualResults |-> NoWorld, characterVisuals |-> <<>>, scenarioVisuals |-> <<>>, i |-> 0]

Min(a, b) == IF a <= b THEN a ELSE b

\* ------------------------------------ generateAllVisualContent, step by step
\* Each operator yields where the function suspends next: pc "concept", "character" or
\* "scenario" (an image call for slot i is about to be made), "return", or "throw"
\* when an exception leaves the function.

\* variant: the visual block has no catch, the exception leaves the function
catchVisual_rethrows(k) == k

\* catch (error) { console.error(...) } followed by return visualResults
catchVisual(k) == [k EXCEPT !.pc = "return"]

\* one iteration of the scenario loop, or the end of the function
beginScenario(v, prog, i) ==
  IF i < ScenarioSlots
  THEN [pc |-> "scenario", vis |-> [v EXCEPT !.i = i],
        prog |-> [prog EXCEPT !.scenarios[i + 1] = LoadingSlot]]
  ELSE [pc |-> "return", vis |-> [v EXCEPT !.visualResults.scenarioVisuals = v.scenarioVisuals],
        prog |-> prog]

\* variant: the loop runs over the first 5 records only
beginCharacter_stopsEarly(v, prog, i) ==
  LET cc == v.visualResults.characterConcepts
  IN IF i < Min(Len(cc), CharacterSlots - 1)
     THEN LET marked == [prog EXCEPT !.characters[i + 1] = LoadingSlot]
          IN IF cc[i + 1] = "n"
             THEN catchVisual([pc |-> "throw", vis |-> [v EXCEPT !.i = i], prog |-> marked])
             ELSE [pc |-> "character", vis |-> [v EXCEPT !.i = i], prog |-> marked]
     ELSE beginScenario([v EXCEPT !.visualResults.characterVisuals = v.characterVisuals], prog, 0)

\* variant: the loop runs over every record, without Math.min(..., 6)
beginCharacter_uncapped(v, prog, i) ==
  LET cc == v.visualResults.characterConcepts
  IN IF i < Len(cc)
     THEN LET marked == IF i < CharacterSlots
                        THEN [prog EXCEPT !.characters[i + 1] = LoadingSlot]
                        ELSE prog
          IN IF cc[i + 1] = "n"
             THEN catchVisual([pc |-> "throw", vis |-> [v EXCEPT !.i = i], prog |-> marked])
             ELSE [pc |-> "character", vis |-> [v EXCEPT !.i = i], prog |-> marked]
     ELSE beginScenario([v EXCEPT !.visualResults.characterVisuals = v.characterVisuals], prog, 0)

\* one iteration of the character loop, or what follows the loop
beginCharacter(v, prog, i) ==
  LET cc == v.visualResults.characterConcepts
  IN IF i < Min(Len(cc), CharacterSlots)
     THEN LET marked == [prog EXCEPT !.characters[i + 1] = LoadingSlot]
          IN IF cc[i + 1] = "n"
             \* character.name on null throws; the catch logs and the function returns
             THEN catchVisual([pc |-> "throw", vis |-> [v EXCEPT !.i = i], prog |-> marked])
             ELSE [pc |-> "character", vis |-> [v EXCEPT !.i = i], prog |-> marked]
     ELSE beginScenario([v EXCEPT !.visualResults.characterVisuals = v.characterVisuals], prog, 0)

\* variant: the scenario loop is entered straight after the concept image
afterConcept_skipsCharacters(v, prog, result) ==
  LET v1 == IF result.isImage
            THEN [v EXCEPT !.visualResults.conceptImage = Str(result.image)]
            ELSE [v EXCEPT !.visualResults.conceptImageDescription = result]
      prog1 == [prog EXCEPT !.concept = DoneSlot(result)]
  IN beginScenario(v1, prog1, 0)

\* what follows the concept image call
afterConcept(v, prog, result) ==
  LET v1 == IF result.isImage
            THEN [v EXCEPT !.visualResults.conceptImage = Str(result.image)]
            ELSE [v EXCEPT !.visualResults.conceptImageDescription = result]
      prog1 == [prog EXCEPT !.concept = DoneSlot(result)]
  IN IF Len(v1.visualResults.characterConcepts) > 0
     THEN beginCharacter(v1, prog1, 0)
     ELSE beginScenario(v1, prog1, 0)

\* variant: the slot of the character is not settled after its call
afterCharacter_leavesLoading(v, prog, result) ==
  [pc |-> "character",
   vis |-> [v EXCEPT !.characterVisuals = Append(v.characterVisuals, result)],
   prog |-> prog]

\* what follows a character or scenario image call, up to the 1 s delay
afterCharacter(v, prog, result) ==
  [pc |-> "character",
   vis |-> [v EXCEPT !.characterVisuals = Append(v.characterVisuals, result)],
   prog |-> [prog EXCEPT !.characters[v.i + 1] = DoneSlot(result)]]

afterScenario(v, prog, result) ==
  [pc |-> "scenario",
   vis |-> [v EXCEPT !.scenarioVisuals = Append(v.scenarioVisuals, result)],
   prog |-> [prog EXCEPT !.scenarios[v.i + 1] = DoneSlot(result)]]

\* ------------------------------------------------- WorldPDFExporter
pageHeight == 297
margin == 20
lineHeight == 7
HeaderBottom == 50          \* currentY after addHeader
SectionNeed == 15
SectionAdvance == 12
TextGap == 3
CharacterNeed == 25
CharacterAdvance == 25
ScenarioNeed == 20
ScenarioAdvance == 23
IdeaNeed == 15
IdeaAdvance == 7
OptionNeed == 12
OptionAdvance == 6
CardsShown == 6             \* character cards of the document
ScenariosShown == 3

\* A text is known to the exporter by the number of lines splitTextToSize cuts it into;
\* 0 lines stands for the empty or missing text.  The document is the sequence of
\* blocks painted so far, each with its page and vertical position.
\* asked keeps the latest checkPageBreak: where currentY stood, on which page, and the
\* height that was requested; each block carries the check made for it.
NoCheck == [from |-> margin, need |-> 0, page |-> 1]

NewDoc == [y |-> margin, page |-> 1, blocks |-> <<>>, thrown |-> FALSE, asked |-> NoCheck]

\* F at the value of x: the document handed on is computed once
With(x, F(_)) == CHOOSE r \in {F(v) : v \in {x}} : TRUE

Block(kind, index, what, d) ==
  [kind |-> kind, index |-> index, what |-> what, page |-> d.page, y |-> d.y,
   from |-> d.asked.from, need |-> d.asked.need, before |-> d.asked.page]

Paint(doc, kind, index, what) ==
  With(doc, LAMBDA d : [d EXCEPT !.blocks = Append(@, Block(kind, index, what, d))])

\* variant: the page is turned only once currentY itself has passed the limit
checkPageBreak_late(doc, spaceNeeded) ==
  With(doc, LAMBDA d :
    LET asked == [from |-> d.y, need |-> spaceNeeded, page |-> d.page]
    IN IF d.y > pageHeight - margin
       THEN [d EXCEPT !.page = @ + 1, !.y = margin, !.asked = asked]
       ELSE [d EXCEPT !.asked = asked])

checkPageBreak(doc, spaceNeeded) ==
  With(doc, LAMBDA d :
    LET asked == [from |-> d.y, need |-> spaceNeeded, page |-> d.page]
    IN IF d.y + spaceNeeded > pageHeight - margin
       THEN [d EXCEPT !.page = @ + 1, !.y = margin, !.asked = asked]
       ELSE [d EXCEPT !.asked = asked])

\* how far below currentY the block paints: the underline of a section header, the
\* second description line of a character card, the background of a scenario card
Extent(kind) ==
  IF kind = "section" THEN 2
  ELSE IF kind = "character" THEN 17
  ELSE IF kind = "scenario" THEN 13
  ELSE 0

addHeader(d) == [Paint(d, "banner", 0, "t") EXCEPT !.y = HeaderBottom]

addSectionHeader(d, title) ==
  With(checkPageBreak(d, SectionNeed),
       LAMBDA d1 : [Paint(d1, "section", 0, title) EXCEPT !.y = d1.y + SectionAdvance])

RECURSIVE addLines(_, _, _)
\* for (let line of lines) { checkPageBreak; text; currentY += lineHeight }
addLines(d, j, n) ==
  IF j > n THEN d
  ELSE With(checkPageBreak(d, lineHeight),
            LAMBDA d1 : addLines([Paint(d1, "line", j - 1, "t") EXCEPT !.y = d1.y + lineHeight],
                                 j + 1, n))

\* addText: `if (!text) return`
addText(d, lines) ==
  IF lines = 0 THEN d
  ELSE LET d1 == addLines(d, 1, lines) IN [d1 EXCEPT !.y = @ + TextGap]

\* addCharacterCard: character.name on a null record throws
addCharacterCard(d, character, index) ==
  With(checkPageBreak(d, CharacterNeed),
       LAMBDA d1 : IF character = "n" THEN [d1 EXCEPT !.thrown = TRUE]
                   ELSE [Paint(d1, "character", index, character)
                           EXCEPT !.y = d1.y + CharacterAdvance])

addScenarioCard(d, index) ==
  With(checkPageBreak(d, ScenarioNeed),
       LAMBDA d1 : [Paint(d1, "scenario", index, "t") EXCEPT !.y = d1.y + ScenarioAdvance])

\* an idea is known by the number of lines of its synopsis
addGameBookIdea(d, idea, index) ==
  With(checkPageBreak(d, IdeaNeed),
       LAMBDA d1 : addText([Paint(d1, "idea", index, "t") EXCEPT !.y = d1.y + IdeaAdvance],
                           idea))

addCustomizationOption(d, option, index) ==
  With(checkPageBreak(d, OptionNeed),
       LAMBDA d1 : addText([Paint(d1, "option", index, "t") EXCEPT !.y = d1.y + OptionAdvance],
                           option))

RECURSIVE forEach(_, _, _, _)
\* list.forEach(add) for the three kinds of card; an exception ends the loop
forEach(doc, kind, list, j) ==
  With(doc, LAMBDA d :
    IF j > Len(list) \/ d.thrown THEN d
    ELSE LET d1 == IF kind = "character" THEN addCharacterCard(d, list[j], j - 1)
                   ELSE IF kind = "scenario" THEN addScenarioCard(d, j - 1)
                   ELSE IF kind = "idea" THEN addGameBookIdea(d, list[j], j - 1)
                   ELSE addCustomizationOption(d, list[j], j - 1)
         IN forEach(d1, kind, list, j + 1))

\* variant: the list is painted as it came, without placeholders
fillCharacters_asIs(characterConcepts) ==
  IF IsArray(characterConcepts) THEN characterConcepts.v ELSE <<>>

\* [...(characterConcepts || [])] followed by the while loop pushing placeholders ("p")
fillCharacters(characterConcepts) ==
  LET given == IF IsArray(characterConcepts) THEN characterConcepts.v ELSE <<>>
  IN IF Len(given) >= CardsShown THEN given
     ELSE given \o [j \in 1..(CardsShown - Len(given)) |-> "p"]

\* allCharacters.slice(0, 6)
firstSix(list) == SubSeq(list, 1, Min(Len(list), CardsShown))

\* ----- the filename
Lower == <<"a", "b", "c", "d", "e", "f", "g", "h", "i", "j", "k", "l", "m",
           "n", "o", "p", "q", "r", "s", "t", "u", "v", "w", "x", "y", "z">>
Upper == <<"A", "B", "C", "D", "E", "F", "G", "H", "I", "J", "K", "L", "M",
           "N", "O", "P", "Q", "R", "S", "T", "U", "V", "W", "X", "Y", "Z">>
Digits == <<"0", "1", "2", "3", "4", "5", "6", "7", "8", "9">>

InSeq(c, q) == \E j \in 1..Len(q) : q[j] = c

\* the class [a-z0-9] under the i flag
IsAlnum(c) == InSeq(c, Lower) \/ InSeq(c, Upper) \/ InSeq(c, Digits)

toLowerCase(c) == IF InSeq(c, Upper) THEN Lower[CHOOSE j \in 1..Len(Upper) : Upper[j] = c] ELSE c

\* worldType.replace(/[^a-z0-9]/gi, '_').toLowerCase()
sanitizedWorldType(worldType) ==
  [j \in 1..Len(worldType) |->
     toLowerCase(IF IsAlnum(worldType[j]) THEN worldType[j] ELSE "_")]

TwoDigits(n) == <<Digits[(n \div 10) + 1], Digits[(n % 10) + 1]>>

\* new Date().toISOString().slice(0, 10) for a date [y, m, d]
timestamp(date) ==
  TwoDigits(date.y \div 100) \o TwoDigits(date.y % 100) \o <<"-">> \o TwoDigits(date.m)
    \o <<"-">> \o TwoDigits(date.d)

\* variant: the name starts with the category
pdfFilename_bare(worldType, date) ==
  sanitizedWorldType(worldType) \o <<"_">> \o timestamp(date) \o <<".", "p", "d", "f">>

\* `world_${sanitizedWorldType}_${timestamp}.pdf`
pdfFilename(worldType, date) ==
  <<"w", "o", "r", "l", "d", "_">> \o sanitizedWorldType(worldType) \o <<"_">>
    \o timestamp(date) \o <<".", "p", "d", "f">>

NoFile == <<>>

FooterLine == 15            \* the footer rule is drawn at pageHeight - 15

\* addFooter: one footer on each page of the document
addFooter(doc) ==
  With(doc, LAMBDA d :
    [d EXCEPT !.blocks =
       @ \o [j \in 1..d.page |->
              [kind |-> "footer", index |-> j - 1, what |-> "t", page |-> j,
               y |-> pageHeight - FooterLine, from |-> pageHeight - FooterLine,
               need |-> 0, before |-> j]]])

\* an exception leaves the function: nothing after it is painted
unlessThrown(doc, F(_)) == With(doc, LAMBDA d : IF d.thrown THEN d ELSE F(d))

\* the body of exportWorldToPDF for an aggregate that is not null: the document painted
\* and, unless an exception left the function, the file saved
paintWorld(w) ==
  LET d0 == addText(addSectionHeader(addHeader(NewDoc), "idea"), w.userIdea)
      d1 == IF w.worldNarrative > 0
            THEN addText(addSectionHeader(d0, "narrative"), w.worldNarrative)
            ELSE d0
      d2 == forEach(addSectionHeader(d1, "characters"), "character",
                    firstSix(fillCharacters(w.characterConcepts)), 1)
      d3 == unlessThrown(d2, LAMBDA d :
              forEach(addSectionHeader(d, "scenarios"), "scenario",
                      [j \in 1..ScenariosShown |-> "t"], 1))
      d4 == unlessThrown(d3, LAMBDA d :
              IF Len(w.gameBookIdeas) > 0
              THEN forEach(addSectionHeader(d, "ideas"), "idea", w.gameBookIdeas, 1)
              ELSE d)
      d5 == unlessThrown(d4, LAMBDA d :
              IF Len(w.customizationOptions) > 0
              THEN forEach(addSectionHeader(d, "options"), "option",
                           w.customizationOptions, 1)
              ELSE d)
      d6 == unlessThrown(d5, LAMBDA d :
              IF w.conceptualMaps > 0
              THEN addText(addSectionHeader(d, "maps"), w.conceptualMaps)
              ELSE d)
  IN unlessThrown(d6, addFooter)

\* exportWorldToPDF(worldData) on the given day; libraryFails stands for pdf.save throwing
exportWorldToPDF(worldData, date, libraryFails) ==
  IF ~worldData.set THEN [invoked |-> TRUE, ok |-> FALSE, filename |-> NoFile, doc |-> NewDoc]
  ELSE With(paintWorld(worldData.value), LAMBDA d :
         IF d.thrown \/ libraryFails
         THEN [invoked |-> TRUE, ok |-> FALSE, filename |-> NoFile, doc |-> d]
         ELSE [invoked |-> TRUE, ok |-> TRUE,
               filename |-> pdfFilename(worldData.value.worldType, date), doc |-> d])

\* the plain-text exporter: `${sanitizedWorldType}_${timestamp}.txt`
textFilename(worldType, date) ==
  sanitizedWorldType(worldType) \o <<"_">> \o timestamp(date) \o <<".", "t", "x", "t">>

\* exportWorldAsText(worldData); fails stands for an exception while the file is written
exportWorldAsText(worldData, date, fails) ==
  IF ~worldData.set \/ fails THEN [ok |-> FALSE, filename |-> NoFile]
  ELSE [ok |-> TRUE, filename |-> textFilename(worldData.value.worldType, date)]

\* ------------------------------------------- WorldDisplay, character section
Max(a, b) == IF a >= b THEN a ELSE b

\* variant: no placeholder cards are added
placeholderCards_none(n) == <<>>

\* Array.from({ length: Math.max(0, 6 - characterConcepts.length) }, ...)
placeholderCards(n) == [j \in 1..Max(0, CardsShown - n) |-> "p"]

NoSection == [rendered |-> FALSE, thrown |-> FALSE, cards |-> <<>>]

\* what WorldDisplay renders for characterConcepts: nothing for a missing or empty list;
\* character.name on a null record among the first six throws
characterSection(characterConcepts) ==
  IF ~IsArray(characterConcepts) \/ Len(characterConcepts.v) = 0 THEN NoSection
  ELSE LET real == firstSix(characterConcepts.v)
       IN IF \E j \in 1..Len(real) : real[j] = "n"
          THEN [NoSection EXCEPT !.thrown = TRUE]
          ELSE [rendered |-> TRUE, thrown |-> FALSE,
                cards |-> real \o placeholderCards(Len(characterConcepts.v))]

\* ----------------------------------------------------------------- state
VARIABLES
  apiKey,                   \* whether REACT_APP_GEMINI_API_KEY is configured
  isLoading, error,         \* hook state; error = NoMsg stands for null
  imageGenerationProgress,  \* the 10 visual slots
  pc, sub,                  \* where the run is suspended, and on what
  net, log,                 \* requests outstanding, requests issued so far
  gen,                      \* locals of generateWorldContent
  vis,                      \* locals of generateAllVisualContent
  img, imgDone,             \* the image-client call under way, the last one settled
  tcall,                    \* the generateText call under way or last settled
  outcome,                  \* how the promise of generateWorldContent settled
  faults,                   \* deviations injected so far
  run,                      \* invocations of generateWorldContent so far, and whether
                            \* the latest one found slots a previous run had marked
  cleanPc, cleanIn, cleanOut, cleanTwice,
  emA, emB,                 \* the two texts wrapped in emphasis markers
  worldData,                \* the world data held by App and handed to the export button
  isExporting, exportStatus,\* state of PDFExportButton
  exportPc,                 \* where handleExportPDF is suspended
  exports,                  \* exports started so far
  timers,                   \* setTimeout callbacks of the button not yet run
  pdfResult, textCall,      \* the latest call of each exporter
  inflight,                 \* App: the runs whose promise handleGenerateWorld awaits
  iresp,                    \* what the image endpoint answered to a direct image call
  ptext                     \* the text of the prompt handed to a direct image call

hookVars == <<apiKey, isLoading, error, imageGenerationProgress, pc, sub, net, log,
              gen, vis, img, imgDone, tcall, outcome, faults, run>>

cleanVars == <<cleanPc, cleanIn, cleanOut, cleanTwice>>

emphVars == <<emA, emB>>

exportVars == <<worldData, isExporting, exportStatus, exportPc, exports, timers,
                pdfResult, textCall>>

\* everything outside the hook
\* a direct call of the image client
clientVars == <<iresp, ptext>>

sideVars == <<cleanVars, emphVars, exportVars, inflight, clientVars>>

vars == <<hookVars, sideVars>>

TextSteps == <<"narrative", "ideas", "custom", "chars", "maps">>
TextStepSet == {TextSteps[j] : j \in 1..Len(TextSteps)}
VisualStepSet == {"concept", "character", "scenario"}

\* the three list calls pass a schema
HasSchema(step) == step \in {"ideas", "custom", "chars"}

StepIndex(step) == CHOOSE j \in 1..Len(TextSteps) : TextSteps[j] = step

Req(endpoint, purpose, index) == [endpoint |-> endpoint, purpose |-> purpose, index |-> index]

\* a log entry: the request and how it ended ("pending", "ok" or "failed")
Entry(req, done) ==
  [endpoint |-> req.endpoint, purpose |-> req.purpose, index |-> req.index, done |-> done]

Settle(l, ok) == [l EXCEPT ![Len(l)].done = IF ok THEN "ok" ELSE "failed"]

NoCall == [schema |-> FALSE, requests |-> 0, settled |-> FALSE, resp |-> NoTextResp,
           res |-> Resolved(Undef)]

NoImageCall == [prompt |-> NoPrompt, type |-> "none"]

NoImageDone == [prompt |-> NoPrompt, type |-> "none", result |-> NoResult, calls |-> 0]

Pending == [state |-> "pending", value |-> NoWorld, err |-> NoMsg]

NoRun == [n |-> 0, stale |-> FALSE]

KeyMissing == Msg("API key not configured. Please check your environment variables.", 0)

\* ------------------------------------------------ what the service may answer
MaxChars == 7        \* longest character list the service returns

Records(n) == [j \in 1..n |-> "r"]

NominalTexts(purpose) ==
  IF purpose \in {"ideas", "custom"} THEN {ArrayText(Records(1))}
  ELSE IF purpose = "chars" THEN {ArrayText(Records(n)) : n \in 0..MaxChars}
  ELSE {<<"a">>}

OddTexts(purpose) ==
  IF purpose \in {"ideas", "custom"}
  THEN {<<"r">>, <<"n">>, <<"[", "r">>, <<"a">>, <<>>}
  ELSE IF purpose = "chars"
  THEN {ArrayText(<<"n">>), ArrayText(<<"r", "n">>), <<"r">>, <<"[", "r", ",">>}
  ELSE {<<>>, <<"*", "a", "*">>, <<" ", "#", "a">>, <<"[", "r", "]">>}

TextFailures ==
  {TextResp("fail", 0, FALSE, 0, <<>>),
   TextResp("ok", StatusError, FALSE, 0, <<>>),
   TextResp("ok", StatusOk, FALSE, 0, <<>>)}
  \cup {TextResp("ok", StatusOk, TRUE, d, <<>>) : d \in 0..(FullDepth - 1)}

TextResponses(purpose) ==
  {GoodText(t) : t \in NominalTexts(purpose) \cup OddTexts(purpose)} \cup TextFailures

TextCost(resp, purpose) ==
  IF resp \in {GoodText(t) : t \in NominalTexts(purpose)} THEN 0 ELSE 1

ImageResponses ==
  {GoodImage,
   ImgResp("fail", 0, FALSE, "absent"),
   ImgResp("ok", StatusError, FALSE, "absent"),
   ImgResp("ok", StatusOk, FALSE, "absent")}
  \cup {ImgResp("ok", StatusOk, TRUE, p) : p \in {"absent", "empty", "nobytes"}}

ImageCost(resp) == IF resp = GoodImage THEN 0 ELSE 1

\* ------------------------------------------------------------------ Init
InitHook ==
  /\ apiKey \in BOOLEAN
  /\ isLoading = FALSE
  /\ error = NoMsg
  /\ imageGenerationProgress = ResetProgress
  /\ pc = "idle"
  /\ sub = "none"
  /\ net = {}
  /\ log = <<>>
  /\ gen = NoLocals
  /\ vis = NoVisual
  /\ img = NoImageCall
  /\ imgDone = NoImageDone
  /\ tcall = NoCall
  /\ outcome = Pending
  /\ faults = 0
  /\ run = NoRun

IdleClean ==
  /\ cleanPc = "off"
  /\ cleanIn = <<>>
  /\ cleanOut = <<>>
  /\ cleanTwice = <<>>

IdleEmphasis ==
  /\ emA = <<>>
  /\ emB = <<>>

BlankWorld ==
  [userIdea |-> 1, worldType |-> <<>>, worldNarrative |-> 0, characterConcepts |-> Undef,
   gameBookIdeas |-> <<>>, customizationOptions |-> <<>>, conceptualMaps |-> 0]

NoData == [set |-> FALSE, run |-> 0, value |-> BlankWorld]

NoStatus == [type |-> "none", message |-> "", filename |-> NoFile, by |-> 0]

NoPdfResult == [invoked |-> FALSE, ok |-> FALSE, filename |-> NoFile, doc |-> NewDoc]

NoTextCall == [loaded |-> FALSE, invoked |-> FALSE, data |-> NoData, ok |-> FALSE,
               filename |-> NoFile]

InitButton ==
  /\ isExporting = FALSE
  /\ exportStatus = NoStatus
  /\ exportPc = "idle"
  /\ exports = 0
  /\ timers = {}
  /\ pdfResult = NoPdfResult
  /\ textCall = NoTextCall

NoImgResp == ImgResp("none", 0, FALSE, "absent")

IdleClient == iresp = NoImgResp /\ ptext = <<>>

IdleExport == worldData = NoData /\ InitButton /\ inflight = {} /\ IdleClient

Init == InitHook /\ IdleClean /\ IdleEmphasis /\ IdleExport

\* ----------------------------------------------------------------- actions
\* the prompt and type of the image call made at pc for index i
ImageCallAt(step, i) ==
  IF step = "concept" THEN [prompt |-> createWorldImagePrompt, type |-> "concept"]
  ELSE IF step = "character" THEN [prompt |-> createCharacterImagePrompt(i), type |-> "character"]
  ELSE [prompt |-> createScenarioImagePrompt(i), type |-> "scenario"]

\* variant: the credential is not looked at
missingKey_never(key) == FALSE

\* if (!apiKey)
missingKey(key) == ~key

\* variant: the slots are left as the previous run marked them
resetImageProgress_keeps(prev) == prev

\* setImageGenerationProgress({concept: ..., characters: ..., scenarios: ...})
resetImageProgress(prev) == ResetProgress

\* generateWorldContent from its call to its first await
beginRun(generateVisuals) ==
  /\ imageGenerationProgress' = resetImageProgress(imageGenerationProgress)
  /\ gen' = [NoLocals EXCEPT !.generateVisuals = generateVisuals]
  /\ IF missingKey(apiKey)
     THEN /\ error' = KeyMissing
          /\ isLoading' = FALSE
          /\ pc' = "rejected"
          /\ sub' = "none"
          /\ outcome' = [state |-> "rejected", value |-> NoWorld, err |-> KeyMissing]
     ELSE /\ error' = NoMsg
          /\ isLoading' = TRUE
          /\ pc' = "narrative"
          /\ sub' = "text_issue"
          /\ outcome' = Pending

\* the first invocation of generateWorldContent
generateWorldContent(generateVisuals) ==
  /\ pc = "idle"
  /\ beginRun(generateVisuals)
  /\ run' = [n |-> 1, stale |-> FALSE]
  /\ UNCHANGED <<apiKey, net, log, vis, img, imgDone, tcall, faults, sideVars>>

\* generateWorldContent invoked again once the previous run has settled; the record of
\* requests and calls starts afresh, and the service answers this run nominally
generateWorldContentAgain(generateVisuals) ==
  /\ pc \in {"resolved", "rejected"}
  /\ run.n < MaxRuns
  /\ beginRun(generateVisuals)
  /\ run' = [n |-> run.n + 1, stale |-> imageGenerationProgress # ResetProgress]
  /\ log' = <<>>
  /\ vis' = NoVisual
  /\ img' = NoImageCall
  /\ imgDone' = NoImageDone
  /\ tcall' = NoCall
  /\ faults' = MaxFaults
  /\ UNCHANGED <<apiKey, net, sideVars>>

\* generateText up to its fetch: one POST to the text endpoint
fetchText ==
  /\ sub = "text_issue"
  /\ LET req == IF pc \in TextStepSet THEN Req("text", pc, 0)
                ELSE Req("text", "description", vis.i)
     IN /\ net' = net \cup {req}
        /\ log' = Append(log, Entry(req, "pending"))
  /\ tcall' = [NoCall EXCEPT !.schema = HasSchema(pc), !.requests = 1]
  /\ sub' = "text_wait"
  /\ UNCHANGED <<apiKey, run, isLoading, error, imageGenerationProgress, pc, gen, vis, img,
                 imgDone, outcome, faults, sideVars>>

\* variant: the flag is ignored
wantsVisuals_always(g) == TRUE

\* if (generateVisuals)
wantsVisuals(g) == g.generateVisuals

\* variant: the catch forgets setIsLoading(false)
catchRun_keepsLoading(err) ==
  /\ error' = err
  /\ isLoading' = isLoading
  /\ pc' = "rejected"
  /\ sub' = "none"
  /\ outcome' = [state |-> "rejected", value |-> NoWorld, err |-> err]

\* catch (err) of generateWorldContent: setError, setIsLoading(false), rethrow
catchRun(err) ==
  /\ error' = err
  /\ isLoading' = FALSE
  /\ pc' = "rejected"
  /\ sub' = "none"
  /\ outcome' = [state |-> "rejected", value |-> NoWorld, err |-> err]

\* variant: the success path forgets setIsLoading(false)
resolveWith_keepsLoading(world) ==
  /\ isLoading' = isLoading
  /\ pc' = "resolved"
  /\ sub' = "none"
  /\ outcome' = [state |-> "resolved", value |-> world, err |-> NoMsg]

\* the run resolves with the aggregate
resolveWith(world) ==
  /\ isLoading' = FALSE
  /\ pc' = "resolved"
  /\ sub' = "none"
  /\ outcome' = [state |-> "resolved", value |-> world, err |-> NoMsg]

\* generateAllVisualContent advances to k: its next image call, or its return
advanceVisual(k) ==
  /\ vis' = k.vis
  /\ imageGenerationProgress' = k.prog
  /\ IF k.pc = "return"
     THEN /\ resolveWith(k.vis.visualResults)
          /\ UNCHANGED <<img, error>>
     ELSE IF k.pc = "throw"
     THEN /\ catchRun(Msg("Cannot read properties of null", 0))
          /\ img' = img
     ELSE /\ pc' = k.pc
          /\ sub' = "img_issue"
          /\ img' = ImageCallAt(k.pc, k.vis.i)
          /\ UNCHANGED <<isLoading, outcome, error>>

\* entry of generateAllVisualContent up to the concept image call
startVisual(world) ==
  [pc |-> "concept",
   vis |-> [NoVisual EXCEPT !.visualResults = world],
   prog |-> [imageGenerationProgress EXCEPT !.concept = LoadingSlot]]

\* the local that receives the result of a text step
storeText(g, step, val) ==
  IF step = "narrative" THEN [g EXCEPT !.worldNarrative = val]
  ELSE IF step = "ideas" THEN [g EXCEPT !.gameBookIdeas = val]
  ELSE IF step = "custom" THEN [g EXCEPT !.customizationOptions = val]
  ELSE IF step = "chars" THEN [g EXCEPT !.characterConcepts = val]
  ELSE [g EXCEPT !.conceptualMaps = val]

\* a text call of generateWorldContent settles; the run continues to its next await
textPhaseResponse(resp) ==
  /\ pc \in TextStepSet
  /\ sub = "text_wait"
  /\ faults + TextCost(resp, pc) <= MaxFaults
  /\ faults' = faults + TextCost(resp, pc)
  /\ net' = {}
  /\ LET r == generateText(resp, HasSchema(pc))
         g == storeText(gen, pc, r.val)
     IN /\ tcall' = [tcall EXCEPT !.settled = TRUE, !.resp = resp, !.res = r]
        /\ IF ~r.ok
           THEN /\ catchRun(r.err)
                /\ UNCHANGED <<gen, vis, img, imageGenerationProgress>>
           ELSE /\ gen' = g
                /\ IF pc # "maps"
                   THEN /\ pc' = TextSteps[StepIndex(pc) + 1]
                        /\ sub' = "text_issue"
                        /\ UNCHANGED <<isLoading, outcome, error, vis, img,
                                       imageGenerationProgress>>
                   ELSE IF wantsVisuals(g)
                        THEN advanceVisual(startVisual(buildWorldData(g)))
                        ELSE /\ resolveWith(buildWorldData(g))
                             /\ UNCHANGED <<error, vis, img, imageGenerationProgress>>
        /\ log' = Settle(log, r.ok)
  /\ UNCHANGED <<apiKey, run, imgDone, sideVars>>

\* generateImageWithFallback called by a consumer of the hook
callImageDirect(kind) ==
  /\ pc = "idle"
  /\ pc' = "direct"
  /\ img' = ImageCallAt(kind, 0)
  /\ sub' = IF apiKey THEN "img_issue" ELSE "text_issue"
  /\ UNCHANGED <<apiKey, run, isLoading, error, imageGenerationProgress, net, log, gen, vis,
                 imgDone, tcall, outcome, faults, sideVars>>

\* generateImageWithFallback up to its fetch: one POST to the image endpoint
fetchImage ==
  /\ sub = "img_issue"
  /\ LET req == Req("image", img.type, vis.i)
     IN /\ net' = net \cup {req}
        /\ log' = Append(log, Entry(req, "pending"))
  /\ sub' = "img_wait"
  /\ UNCHANGED <<apiKey, run, isLoading, error, imageGenerationProgress, pc, gen, vis, img,
                 imgDone, tcall, outcome, faults, sideVars>>

\* an image-client call returns result to its caller, which runs to its next await
imageReturns(result) ==
  /\ imgDone' = [prompt |-> img.prompt, type |-> img.type, result |-> result,
                 calls |-> imgDone.calls + 1]
  /\ IF pc = "direct"
     THEN /\ pc' = "direct_done"
          /\ sub' = "none"
          /\ UNCHANGED <<isLoading, outcome, error, vis, img, imageGenerationProgress>>
     ELSE IF pc = "concept"
     THEN advanceVisual(afterConcept(vis, imageGenerationProgress, result))
     ELSE LET k == IF pc = "character"
                   THEN afterCharacter(vis, imageGenerationProgress, result)
                   ELSE afterScenario(vis, imageGenerationProgress, result)
          IN /\ vis' = k.vis
             /\ imageGenerationProgress' = k.prog
             /\ pc' = k.pc
             /\ sub' = "delay"
             /\ UNCHANGED <<isLoading, outcome, error, img>>

\* the image fetch settles with resp: the rest of the try block, or the catch
imageSettles(resp) ==
  /\ sub = "img_wait"
  /\ faults + ImageCost(resp) <= MaxFaults
  /\ faults' = faults + ImageCost(resp)
  /\ net' = {}
  /\ IF ImageObtained(resp)
     THEN imageReturns(ImageResult(img.type, BytesFor(img.prompt)))
     ELSE \* catch: return await generateImageDescription(prompt, type)
          /\ sub' = "text_issue"
          /\ UNCHANGED <<pc, isLoading, outcome, error, vis, img, imgDone,
                         imageGenerationProgress>>
  /\ log' = Settle(log, ImageObtained(resp))
  /\ UNCHANGED <<apiKey, run, gen, tcall>>

\* the image fetch of a call made inside a run settles
imageResponse(resp) == imageSettles(resp) /\ UNCHANGED sideVars

\* the text call of generateImageDescription settles
descriptionResponse(resp) ==
  /\ pc \in VisualStepSet \cup {"direct"}
  /\ sub = "text_wait"
  /\ faults + TextCost(resp, "description") <= MaxFaults
  /\ faults' = faults + TextCost(resp, "description")
  /\ net' = {}
  /\ LET r == generateText(resp, FALSE)
     IN /\ tcall' = [tcall EXCEPT !.settled = TRUE, !.resp = resp, !.res = r]
        /\ imageReturns(generateImageDescription(r, img.prompt, img.type))
        /\ log' = Settle(log, r.ok)
  /\ UNCHANGED <<apiKey, run, gen, sideVars>>

\* the 1 s timer after a character or scenario image fires
delayElapsed ==
  /\ sub = "delay"
  /\ advanceVisual(IF pc = "character"
                   THEN beginCharacter(vis, imageGenerationProgress, vis.i + 1)
                   ELSE beginScenario(vis, imageGenerationProgress, vis.i + 1))
  /\ UNCHANGED <<apiKey, run, net, log, gen, imgDone, tcall, faults, sideVars>>

Next ==
  \/ \E gv \in BOOLEAN : generateWorldContent(gv)
  \/ fetchText
  \/ \E resp \in TextResponses(pc) : textPhaseResponse(resp)
  \/ \E kind \in VisualStepSet : callImageDirect(kind)
  \/ fetchImage
  \/ \E resp \in ImageResponses : imageResponse(resp)
  \/ \E resp \in TextResponses("description") : descriptionResponse(resp)
  \/ delayElapsed

Spec == Init /\ [][Next]_vars

\* the image fetch of a direct call settles; the answer is kept
imageResponseDirect(resp) ==
  /\ pc = "direct"
  /\ imageSettles(resp)
  /\ iresp' = resp
  /\ UNCHANGED <<cleanVars, emphVars, exportVars, inflight, ptext>>

\* generateImageWithFallback alone, called by a consumer of the hook
NextImage ==
  \/ \E kind \in VisualStepSet : callImageDirect(kind)
  \/ fetchImage
  \/ \E resp \in ImageResponses : imageResponseDirect(resp)
  \/ fetchText
  \/ \E resp \in TextResponses("description") : descriptionResponse(resp)

SpecImage == Init /\ [][NextImage]_vars

\* JSON texts of a number and of a string, which a schema call may also come back with
ScalarTexts == {<<"7">>, <<"\"", "a", "\"">>}

ListResponses(purpose) ==
  TextResponses(purpose)
    \cup (IF HasSchema(purpose) THEN {GoodText(t) : t \in ScalarTexts} ELSE {})

\* a run without visuals, whose list calls may come back with any JSON value
NextLists ==
  \/ generateWorldContent(FALSE)
  \/ fetchText
  \/ \E resp \in ListResponses(pc) : textPhaseResponse(resp)

SpecLists == Init /\ [][NextLists]_vars

\* the prompts a consumer hands to the image client: empty, short, and around the cut
PromptLens == {n \in 0..MaxPrompt : n <= 1 \/ n >= EchoLen - 1}

\* a prompt of n characters, each telling its position
PromptOf(n) == [j \in 1..n |-> Digits[(j % 10) + 1]]

\* the string a clipped prompt stands for: text.substring(0, take) + '...'
EchoText(clip, text) ==
  SubSeq(text, 1, Min(Len(text), clip.take))
    \o (IF clip.ellipsis THEN <<".", ".", ".">> ELSE <<>>)

InitEcho ==
  /\ InitHook
  /\ IdleClean
  /\ IdleEmphasis
  /\ worldData = NoData
  /\ InitButton
  /\ inflight = {}
  /\ iresp = NoImgResp
  /\ ptext \in {PromptOf(n) : n \in PromptLens}

SpecEcho == InitEcho /\ [][NextImage]_vars

\* the hook with generateWorldContent invoked repeatedly
NextRerun ==
  \/ Next
  \/ \E gv \in BOOLEAN : generateWorldContentAgain(gv)

SpecRerun == Init /\ [][NextRerun]_vars

\* ------------------------------------------- cleanText as a small machine
InitClean ==
  /\ InitHook
  /\ IdleEmphasis
  /\ IdleExport
  /\ cleanPc = "input"
  /\ cleanIn \in Strings(MaxLen)
  /\ cleanOut = <<>>
  /\ cleanTwice = <<>>

CleanOnce ==
  /\ cleanPc = "input"
  /\ cleanOut' = cleanText(cleanIn)
  /\ cleanPc' = "cleaned"
  /\ UNCHANGED <<cleanIn, cleanTwice, hookVars, emphVars, exportVars, inflight, clientVars>>

CleanAgain ==
  /\ cleanPc = "cleaned"
  /\ cleanTwice' = cleanText(cleanOut)
  /\ cleanPc' = "recleaned"
  /\ UNCHANGED <<cleanIn, cleanOut, hookVars, emphVars, exportVars, inflight, clientVars>>

NextClean == CleanOnce \/ CleanAgain

SpecClean == InitClean /\ [][NextClean]_vars

\* ------------------------------------- cleanText on emphasised text
PlainAlphabet == {"a", "b", " "}

\* non-empty texts without * _ # or newline and without outer whitespace
PlainTexts ==
  {s \in UNION {[1..k -> PlainAlphabet] : k \in 1..MaxLen} :
     ~IsSpace(s[1]) /\ ~IsSpace(s[Len(s)])}

And == <<" ", "a", "n", "d", " ">>

\* '**' + a + '** and *' + b + '*'
Emphasised(a, b) == <<"*", "*">> \o a \o <<"*", "*">> \o And \o <<"*">> \o b \o <<"*">>

InitEmphasis ==
  /\ InitHook
  /\ IdleExport
  /\ emA \in PlainTexts
  /\ emB \in PlainTexts
  /\ cleanPc = "input"
  /\ cleanIn = Emphasised(emA, emB)
  /\ cleanOut = <<>>
  /\ cleanTwice = <<>>

SpecEmphasis == InitEmphasis /\ [][NextClean]_vars

\* ------------------------------------------------ the export button
\* labels of the form's list, and two custom labels
WorldTypes ==
  {<<"P", "o", "s", "t", "-", "A", "p", "o", "c", "a", "l", "y", "p", "t", "i", "c">>,
   <<"S", "c", "i", "-", "F", "i", " ", "F", "u", "t", "u", "r", "e">>,
   <<"S", "t", "e", "a", "m", "p", "u", "n", "k">>,
   <<"O", "l", "d", " ", "W", "e", "s", "t", " ", "2">>,
   <<"a", "&", "B", "_", "9">>}

Dates == {[y |-> 2024, m |-> 2, d |-> 9], [y |-> 2025, m |-> 11, d |-> 30]}

\* character lists WorldDisplay can show: missing, or records in the first six places
CharacterLists ==
  {Undef} \cup {Arr(Records(n)) : n \in 0..MaxChars}
          \cup {Arr(Records(CardsShown) \o <<"n">>)}

IdeaLists == {<<>>, <<1>>, <<MaxLines, 0>>}

OptionLists == {<<>>, <<MaxLines>>}

ExportWorlds ==
  [userIdea : {1}, worldType : WorldTypes, worldNarrative : 0..MaxLines,
   characterConcepts : CharacterLists, gameBookIdeas : IdeaLists,
   customizationOptions : OptionLists, conceptualMaps : {0, MaxLines}]

\* the exporter called on its own
InitPdf ==
  /\ InitHook
  /\ IdleClean
  /\ IdleEmphasis
  /\ InitButton
  /\ inflight = {}
  /\ IdleClient
  /\ worldData \in [set : {TRUE}, run : {0}, value : ExportWorlds]

exportOnce(date, libraryFails) ==
  /\ ~pdfResult.invoked
  /\ pdfResult' = exportWorldToPDF(worldData, date, libraryFails)
  /\ UNCHANGED <<worldData, isExporting, exportStatus, exportPc, exports, timers, textCall,
                 hookVars, cleanVars, emphVars, inflight, clientVars>>

NextPdf == \E date \in Dates, libraryFails \in BOOLEAN : exportOnce(date, libraryFails)

SpecPdf == InitPdf /\ [][NextPdf]_vars

\* the worlds shown while the button is used
ButtonWorlds ==
  {w \in ExportWorlds :
     /\ w.worldNarrative = 1
     /\ w.gameBookIdeas = <<1>>
     /\ w.customizationOptions = <<>>
     /\ w.conceptualMaps = 0
     /\ w.characterConcepts \in {Arr(Records(2)), Arr(Records(MaxChars))}
     /\ Len(w.worldType) = 9 \/ Len(w.worldType) = 16}

InitExport ==
  /\ InitHook
  /\ IdleClean
  /\ IdleEmphasis
  /\ InitButton
  /\ inflight = {}
  /\ IdleClient
  /\ worldData \in [set : {TRUE}, run : {0}, value : ButtonWorlds]

PdfSuccess(filename, by) ==
  [type |-> "success", message |-> "PDF exported successfully as", filename |-> filename,
   by |-> by]

\* variant: the text fallback is reported as a failure
TextSuccess_asError(filename, by) ==
  [type |-> "error", message |-> "Failed to export. Please try again.",
   filename |-> NoFile, by |-> by]

TextSuccess(filename, by) ==
  [type |-> "success", message |-> "World exported as text file:", filename |-> filename,
   by |-> by]

ExportError(by) ==
  [type |-> "error", message |-> "Failed to export. Please try again.",
   filename |-> NoFile, by |-> by]

NoDataError ==
  [type |-> "error", message |-> "No world data to export", filename |-> NoFile, by |-> 0]

SuccessDelay == 3000
ErrorDelay == 5000

Timer(by, ms) == [by |-> by, ms |-> ms]

\* a click on the button (enabled unless isExporting || !worldData), up to the import of
\* the PDF exporter
handleExportPDF ==
  /\ exportPc = "idle"
  /\ ~isExporting
  /\ worldData.set
  /\ exports < MaxExports
  /\ IF ~worldData.set
     THEN /\ exportStatus' = NoDataError
          /\ UNCHANGED <<isExporting, exportPc, exports, pdfResult, textCall>>
     ELSE /\ isExporting' = TRUE
          /\ exportStatus' = NoStatus
          /\ exportPc' = "import_pdf"
          /\ exports' = exports + 1
          /\ pdfResult' = NoPdfResult
          /\ textCall' = NoTextCall
  /\ UNCHANGED <<worldData, timers, hookVars, cleanVars, emphVars, inflight, clientVars>>

\* the import of the PDF exporter settles; when it loaded, exportWorldToPDF runs
pdfExporterLoaded(loaded, date, libraryFails) ==
  /\ exportPc = "import_pdf"
  /\ pdfResult' = IF loaded THEN exportWorldToPDF(worldData, date, libraryFails)
                  ELSE NoPdfResult
  /\ IF pdfResult'.ok
     THEN /\ exportStatus' = PdfSuccess(pdfResult'.filename, exports)
          /\ timers' = timers \cup {Timer(exports, SuccessDelay)}
          /\ isExporting' = FALSE
          /\ exportPc' = "idle"
     ELSE \* catch (pdfError): import of the text exporter
          /\ exportPc' = "import_text"
          /\ UNCHANGED <<exportStatus, timers, isExporting>>
  /\ UNCHANGED <<worldData, exports, textCall, hookVars, cleanVars, emphVars, inflight, clientVars>>

\* the import of the text exporter settles; when it loaded, exportWorldAsText runs
textExporterLoaded(loaded, date, fails) ==
  /\ exportPc = "import_text"
  /\ LET r == IF loaded THEN exportWorldAsText(worldData, date, fails)
              ELSE [ok |-> FALSE, filename |-> NoFile]
     IN /\ textCall' = [loaded |-> loaded, invoked |-> loaded,
                        data |-> IF loaded THEN worldData ELSE NoData,
                        ok |-> r.ok, filename |-> r.filename]
        /\ IF r.ok
           THEN /\ exportStatus' = TextSuccess(r.filename, exports)
                /\ timers' = timers \cup {Timer(exports, SuccessDelay)}
           ELSE \* catch (error) of handleExportPDF
                /\ exportStatus' = ExportError(exports)
                /\ timers' = timers \cup {Timer(exports, ErrorDelay)}
  /\ isExporting' = FALSE
  /\ exportPc' = "idle"
  /\ UNCHANGED <<worldData, exports, pdfResult, hookVars, cleanVars, emphVars, inflight, clientVars>>

\* setTimeout(() => setExportStatus(null), ...)
timerFires(t) ==
  /\ t \in timers
  /\ timers' = timers \ {t}
  /\ exportStatus' = NoStatus
  /\ UNCHANGED <<worldData, isExporting, exportPc, exports, pdfResult, textCall,
                 hookVars, cleanVars, emphVars, inflight, clientVars>>

NextExport ==
  \/ handleExportPDF
  \/ \E loaded \in BOOLEAN, date \in Dates, libraryFails \in BOOLEAN :
       pdfExporterLoaded(loaded, date, libraryFails)
  \/ \E loaded \in BOOLEAN, date \in Dates, fails \in BOOLEAN :
       textExporterLoaded(loaded, date, fails)
  \/ \E t \in timers : timerFires(t)

SpecExport == InitExport /\ [][NextExport]_vars

\* ----------------------------------------------------------------- App
\* A run is known to App by its number; the aggregate it resolves with carries it.

\* variant: the form is hidden only while a run is loading
FormShown_whenIdle == ~isLoading

\* {!worldData && !isLoading && <InputForm .../>}
FormShown == ~worldData.set /\ ~isLoading

\* {error && <ErrorMessage .../>}
ErrorShown == error # NoMsg

\* {worldData && !isLoading && ...}: the Create New World button and WorldDisplay
ResultsShown == worldData.set /\ ~isLoading

\* err.message of what generateWorldContent rethrows: the rejection of a generateText call
RunErrors == {generateText(resp, FALSE).err : resp \in TextFailures}

\* the form submits: handleGenerateWorld up to the await of generateWorldContent
handleGenerateWorld ==
  /\ FormShown
  /\ run.n < MaxRuns
  /\ worldData' = NoData
  /\ imageGenerationProgress' = resetImageProgress(imageGenerationProgress)
  /\ run' = [n |-> run.n + 1, stale |-> FALSE]
  /\ IF missingKey(apiKey)
     THEN /\ error' = KeyMissing
          /\ isLoading' = FALSE
          /\ inflight' = inflight
     ELSE /\ error' = NoMsg
          /\ isLoading' = TRUE
          /\ inflight' = inflight \cup {run.n + 1}
  /\ UNCHANGED <<apiKey, pc, sub, net, log, gen, vis, img, imgDone, tcall, outcome, faults,
                 cleanVars, emphVars, isExporting, exportStatus, exportPc, exports, timers,
                 pdfResult, textCall, clientVars>>

\* run k resolves: setIsLoading(false) in the hook, setWorldData(newWorldData) in App
runResolves(k, world) ==
  /\ k \in inflight
  /\ inflight' = inflight \ {k}
  /\ isLoading' = FALSE
  /\ worldData' = [set |-> TRUE, run |-> k, value |-> world]
  /\ UNCHANGED <<apiKey, error, imageGenerationProgress, pc, sub, net, log, gen, vis, img,
                 imgDone, tcall, outcome, faults, run, cleanVars, emphVars, isExporting,
                 exportStatus, exportPc, exports, timers, pdfResult, textCall, clientVars>>

\* run k rejects: setError and setIsLoading(false) in the hook; App only logs
runRejects(k, err) ==
  /\ k \in inflight
  /\ inflight' = inflight \ {k}
  /\ isLoading' = FALSE
  /\ error' = err
  /\ UNCHANGED <<apiKey, imageGenerationProgress, pc, sub, net, log, gen, vis, img,
                 imgDone, tcall, outcome, faults, run, cleanVars, emphVars, exportVars, clientVars>>

\* Try Again of the error message
handleRetry ==
  /\ ErrorShown
  /\ error' = NoMsg
  /\ worldData' = NoData
  /\ UNCHANGED <<apiKey, isLoading, imageGenerationProgress, pc, sub, net, log, gen, vis,
                 img, imgDone, tcall, outcome, faults, run, cleanVars, emphVars, inflight, clientVars,
                 isExporting, exportStatus, exportPc, exports, timers, pdfResult, textCall>>

\* Create New World
handleStartOver ==
  /\ ResultsShown
  /\ worldData' = NoData
  /\ error' = NoMsg
  /\ UNCHANGED <<apiKey, isLoading, imageGenerationProgress, pc, sub, net, log, gen, vis,
                 img, imgDone, tcall, outcome, faults, run, cleanVars, emphVars, inflight, clientVars,
                 isExporting, exportStatus, exportPc, exports, timers, pdfResult, textCall>>

NextApp ==
  \/ handleGenerateWorld
  \/ \E k \in inflight, world \in ExportWorlds : runResolves(k, world)
  \/ \E k \in inflight, err \in RunErrors : runRejects(k, err)
  \/ handleRetry
  \/ handleStartOver

SpecApp == Init /\ [][NextApp]_vars

\* ======================================================================
\* Properties
\* ======================================================================
Last(l) == l[Len(l)]

IsTextPhase(e) == e.purpose \in {"narrative", "ideas", "custom", "chars", "maps"}

IsMainCall(e) == e.purpose # "description"

InRun == pc \notin {"idle", "direct", "direct_done"}

FreshRecord == [loading |-> FALSE, completed |-> FALSE, failed |-> FALSE]

\* C1: if one of the five text-generation calls fails, the run rejects with that error,
\* returns no aggregate, issues no request after the failed one, sets the error message
\* and leaves isLoading false.
C1_TextFailureIsFatal ==
  \A j \in 1..Len(log) :
    (IsTextPhase(log[j]) /\ log[j].done = "failed") =>
      /\ j = Len(log)
      /\ net = {}
      /\ sub = "none"
      /\ ~tcall.res.ok
      /\ outcome.state = "rejected"
      /\ outcome.err = tcall.res.err
      /\ outcome.value.worldNarrative = <<>>
      /\ outcome.value.characterConcepts = <<>>
      /\ error = tcall.res.err
      /\ error.text # ""
      /\ isLoading = FALSE

C1_Witness ==
  /\ Len(log) = 4
  /\ log[4].purpose = "chars"
  /\ log[4].done = "failed"
  /\ outcome.state = "rejected"

\* C2: with visuals requested and the five text calls successful, the run never rejects
\* and is never left without a pending request or timer unless it has resolved; the
\* narrative, idea list, customization list, character list and region text of the
\* aggregate are those the text phase produced.
C2_VisualPhaseNeverRejects ==
  (gen.generateVisuals /\ \E j \in 1..Len(log) : log[j].purpose = "maps" /\ log[j].done = "ok") =>
    LET w == IF pc = "resolved" THEN outcome.value ELSE vis.visualResults
    IN /\ outcome.state # "rejected"
       /\ pc \in {"concept", "character", "scenario", "resolved"}
       /\ (pc = "resolved") = (outcome.state = "resolved")
       /\ (sub = "none") = (pc = "resolved")
       /\ w.worldNarrative = cleanTextOf(gen.worldNarrative)
       /\ w.gameBookIdeas = (IF gen.gameBookIdeas.t = "arr" THEN gen.gameBookIdeas.v ELSE <<>>)
       /\ w.customizationOptions =
            (IF gen.customizationOptions.t = "arr" THEN gen.customizationOptions.v ELSE <<>>)
       /\ w.characterConcepts =
            (IF gen.characterConcepts.t = "arr" THEN gen.characterConcepts.v ELSE <<>>)
       /\ w.conceptualMaps = cleanTextOf(gen.conceptualMaps)

\* an exception escaped the visual block (null character record) after the concept image
\* call had failed and fallen back to a description
C2_Witness ==
  /\ pc = "resolved"
  /\ gen.generateVisuals
  /\ outcome.value.characterConcepts = <<"r", "n">>
  /\ outcome.value.conceptImageDescription.isDescription
  /\ imageGenerationProgress.characters[2].loading

\* C3: every image-client call that has ended returned exactly one of the two variants:
\* Image with bytes, or Description with text; it never ends without a result.
C3_ImageClientAlwaysYields ==
  LET ended == {j \in 1..Len(log) :
                  \/ log[j].endpoint = "image" /\ log[j].done = "ok"
                  \/ log[j].purpose = "description" /\ log[j].done # "pending"}
      r == imgDone.result
  IN /\ imgDone.calls = Cardinality(ended)
     /\ imgDone.calls > 0 =>
          /\ r.isImage # r.isDescription
          /\ r.type = imgDone.type
          /\ r.isImage => r.image # <<>> /\ ~r.brief /\ ~r.synth.ellipsis
          /\ r.isDescription => r.image = <<>> /\ (r.brief # r.synth.ellipsis)

\* no credential, and the fallback text call failed as well
C3_Witness ==
  /\ ~apiKey
  /\ pc = "direct_done"
  /\ imgDone.calls = 1
  /\ imgDone.result.isDescription
  /\ imgDone.result.synth.ellipsis
  /\ Last(log).done = "failed"

ExpectedOrder(nChars) ==
  <<<<"narrative", 0>>, <<"ideas", 0>>, <<"custom", 0>>, <<"chars", 0>>, <<"maps", 0>>,
    <<"concept", 0>>>>
  \o [j \in 1..nChars |-> <<"character", j - 1>>]
  \o [j \in 1..3 |-> <<"scenario", j - 1>>]

MainCalls == SelectSeq(log, IsMainCall)

\* C4: in a run at most one request is outstanding and it is the one issued last; the
\* calls come in the fixed order narrative, idea list, customization list, character
\* list, region maps, then with visuals only the concept image, the character images by
\* increasing index and the scenario images by increasing index; a fallback request
\* directly follows the failed image request of the same slot.
C4_SequentialFixedOrder ==
  InRun =>
    LET cc == IF gen.characterConcepts.t = "arr" THEN gen.characterConcepts.v ELSE <<>>
        k == IF Len(cc) <= 6 THEN Len(cc) ELSE 6
        expected == ExpectedOrder(k)
    IN /\ Cardinality(net) <= 1
       /\ \A j \in 1..Len(log) : log[j].done = "pending" => j = Len(log)
       /\ (net # {}) = (log # <<>> /\ Last(log).done = "pending")
       /\ \A r \in net : r = [endpoint |-> Last(log).endpoint, purpose |-> Last(log).purpose,
                              index |-> Last(log).index]
       /\ Len(MainCalls) <= Len(expected)
       /\ \A j \in 1..Len(MainCalls) :
            <<MainCalls[j].purpose, MainCalls[j].index>> = expected[j]
       /\ ~gen.generateVisuals => Len(MainCalls) <= 5
       /\ \A j \in 1..Len(log) :
            log[j].purpose = "description" =>
              /\ j > 1
              /\ log[j - 1].endpoint = "image"
              /\ log[j - 1].done = "failed"
              /\ log[j - 1].index = log[j].index

\* a run that made all 15 calls, one of them with a fallback request
C4_Witness ==
  /\ pc = "resolved"
  /\ Len(MainCalls) = 15
  /\ Len(log) = 16

\* C5: a run without visuals issues no image request and no art-direction request and
\* resolves with no image slot populated.
C5_NoVisualsNoImageClient ==
  (InRun /\ ~gen.generateVisuals) =>
    /\ \A j \in 1..Len(log) : log[j].endpoint = "text" /\ log[j].purpose # "description"
    /\ imgDone.calls = 0
    /\ pc = "resolved" =>
         /\ outcome.value.conceptImage = Null
         /\ ~outcome.value.conceptImageDescription.isDescription
         /\ outcome.value.characterVisuals = <<>>
         /\ outcome.value.scenarioVisuals = <<>>

C5_Witness ==
  /\ pc = "resolved"
  /\ ~gen.generateVisuals
  /\ Len(outcome.value.characterConcepts) = 2

\* the result in slot is the one obtained for prompt kind/index
ResultFor(slot, kind, index) ==
  /\ slot.type = kind
  /\ slot.isImage => slot.image = BytesFor([kind |-> kind, index |-> index])
  /\ ~slot.isImage => slot.isDescription /\ slot.prompt.src = [kind |-> kind, index |-> index]

\* C6 as claimed: with visuals, the aggregate holds exactly 6 character visual slots
\* (slot i < min(n,6) the result for record i, the rest padding) and exactly 3 scenario
\* visual slots.
C6_SixAndThreeSlots ==
  (pc = "resolved" /\ gen.generateVisuals) =>
    LET cv == outcome.value.characterVisuals
        sv == outcome.value.scenarioVisuals
        n == Len(outcome.value.characterConcepts)
    IN /\ Len(cv) = 6
       /\ \A i \in 1..(IF n <= 6 THEN n ELSE 6) : ResultFor(cv[i], "character", i - 1)
       /\ Len(sv) = 3
       /\ \A j \in 1..3 : ResultFor(sv[j], "scenario", j - 1)

\* C6 amended: with visuals, the aggregate holds one character visual per record
\* attempted, at most 6 and without padding: min(n,6) slots, slot i the result for
\* record i, and 3 scenario slots, slot j the result for archetype j; when a null entry
\* among the first 6 makes prompt construction throw, both sequences are empty.
C6_OnePerAttemptedRecord ==
  (pc = "resolved" /\ gen.generateVisuals) =>
    LET cv == outcome.value.characterVisuals
        sv == outcome.value.scenarioVisuals
        cc == outcome.value.characterConcepts
        k == IF Len(cc) <= 6 THEN Len(cc) ELSE 6
    IN IF \E i \in 1..k : cc[i] = "n"
       THEN cv = <<>> /\ sv = <<>>
       ELSE /\ Len(cv) = k
            /\ \A i \in 1..k : ResultFor(cv[i], "character", i - 1)
            /\ Len(sv) = 3
            /\ \A j \in 1..3 : ResultFor(sv[j], "scenario", j - 1)

\* seven records returned, six attempted, one of them with the description fallback
C6_Witness ==
  /\ pc = "resolved"
  /\ gen.generateVisuals
  /\ Len(outcome.value.characterConcepts) = 7
  /\ Len(outcome.value.characterVisuals) = 6
  /\ outcome.value.characterVisuals[6].isDescription
  /\ Len(outcome.value.scenarioVisuals) = 3

\* C7: while the text phase runs, and after a text-phase call has failed, all 10 visual
\* slots equal {loading:false, completed:false, failed:false}.
C7_TextFailureLeavesProgressReset ==
  (\/ pc \in {"narrative", "ideas", "custom", "chars", "maps"}
   \/ \E j \in 1..Len(log) : IsTextPhase(log[j]) /\ log[j].done = "failed") =>
    /\ imageGenerationProgress.concept = FreshRecord
    /\ DOMAIN imageGenerationProgress.characters = 1..6
    /\ \A i \in 1..6 : imageGenerationProgress.characters[i] = FreshRecord
    /\ DOMAIN imageGenerationProgress.scenarios = 1..3
    /\ \A i \in 1..3 : imageGenerationProgress.scenarios[i] = FreshRecord

\* the narrative call failed and the run rejected
C7_Witness ==
  /\ pc = "rejected"
  /\ Len(log) = 1
  /\ log[1].purpose = "narrative"
  /\ log[1].done = "failed"

WellShaped(resp) ==
  resp.net = "ok" /\ resp.status = 200 /\ resp.json /\ resp.depth = 6

\* C8: a generateText call with a schema whose response is successful and well shaped
\* but whose text is not valid JSON resolves with exactly the raw text.
C8_ParseFailureReturnsRawText ==
  (tcall.settled /\ tcall.schema /\ WellShaped(tcall.resp) /\ ~JSONParse(tcall.resp.text).ok) =>
    /\ tcall.res.ok
    /\ tcall.res.val = [t |-> "str", v |-> tcall.resp.text]

C8_Witness ==
  /\ tcall.settled
  /\ tcall.schema
  /\ tcall.resp.text = <<"[", "r", ",">>
  /\ tcall.res.val.v = <<"[", "r", ",">>
  /\ pc = "maps"

\* C9 as claimed: a generateText call issues exactly one request and resolves exactly
\* when the response exposes candidates[0].content.parts[0].text; it rejects on a
\* transport failure, a non-success status or any payload short of that text.
C9_ResolvesOnlyWithText ==
  /\ tcall.requests <= 1
  /\ tcall.settled => (tcall.requests = 1 /\ (tcall.res.ok = WellShaped(tcall.resp)))

\* C10 as claimed: cleanText(cleanText(s)) = cleanText(s).
C10_CleanTextIdempotent ==
  cleanPc = "recleaned" => cleanTwice = cleanOut

\* C11: for non-empty texts a and b without * _ # or newline and without
\* leading or trailing whitespace, cleanText('**' + a + '** and *' + b + '*')
\* is a + ' and ' + b.
C11_EmphasisRemoved ==
  (cleanPc # "input" /\ cleanIn = Emphasised(emA, emB)) => cleanOut = emA \o And \o emB

C11_Witness ==
  /\ cleanPc = "cleaned"
  /\ emA = <<"a", " ", "b">>
  /\ emB = <<"b">>
  /\ cleanIn = Emphasised(emA, emB)
  /\ cleanOut = <<"a", " ", "b", " ", "a", "n", "d", " ", "b">>

\* an image-client call made by generateAllVisualContent is under way
InCall == pc \in VisualStepSet /\ sub \in {"img_issue", "img_wait", "text_issue", "text_wait"}

SlotOf(prog, kind, index) ==
  IF kind = "concept" THEN prog.concept
  ELSE IF kind = "character" THEN prog.characters[index + 1]
  ELSE prog.scenarios[index + 1]

\* the slots whose image-client call has returned hold completed, with failed exactly
\* for a Description
SettledSlots ==
  LET w == IF pc = "resolved" THEN outcome.value ELSE vis.visualResults
      cv == IF pc = "resolved" THEN w.characterVisuals ELSE vis.characterVisuals
      sv == IF pc = "resolved" THEN w.scenarioVisuals ELSE vis.scenarioVisuals
      conceptDone == w.conceptImage # Null \/ w.conceptImageDescription.isDescription
  IN /\ conceptDone =>
          imageGenerationProgress.concept =
            [loading |-> FALSE, completed |-> TRUE,
             failed |-> w.conceptImageDescription.isDescription]
     /\ \A j \in 1..Len(cv) :
          imageGenerationProgress.characters[j] =
            [loading |-> FALSE, completed |-> TRUE, failed |-> cv[j].isDescription]
     /\ \A j \in 1..Len(sv) :
          imageGenerationProgress.scenarios[j] =
            [loading |-> FALSE, completed |-> TRUE, failed |-> sv[j].isDescription]

\* C17: while the image-client call for slot s is under way, slot s holds
\* {loading:true, completed:false, failed:false}; once it has returned, slot s holds
\* {loading:false, completed:true, failed:f} with f true exactly when a Description was
\* returned; no slot changes while the call is under way.
C17_SlotBracketsCall ==
  /\ [](InCall =>
          SlotOf(imageGenerationProgress, pc, vis.i) =
            [loading |-> TRUE, completed |-> FALSE, failed |-> FALSE])
  /\ []((gen.generateVisuals /\ pc \in VisualStepSet \cup {"resolved"}) =>
          /\ SettledSlots
          /\ (imgDone.calls > 0 /\ (sub = "delay" \/ imgDone.type = "concept")) =>
               SlotOf(imageGenerationProgress, imgDone.type, imgDone.prompt.index) =
                 [loading |-> FALSE, completed |-> TRUE,
                  failed |-> imgDone.result.isDescription])
  /\ [][(InCall /\ InCall' /\ pc' = pc /\ vis'.i = vis.i) =>
          imageGenerationProgress' = imageGenerationProgress]_vars

\* the second character call fell back to a description and its slot is marked failed
C17_Witness ==
  /\ pc = "character"
  /\ sub = "delay"
  /\ vis.i = 1
  /\ imgDone.result.isDescription
  /\ imageGenerationProgress.characters[1] = Slot(FALSE, TRUE, FALSE)
  /\ imageGenerationProgress.characters[2] = Slot(FALSE, TRUE, TRUE)
  /\ imageGenerationProgress.characters[3] = FreshSlot

\* C19: without an API credential generateWorldContent rejects with the message
\* 'API key not configured', issues no request, sets the error and leaves isLoading false.
C19_NoKeyRejectsAtOnce ==
  (~apiKey /\ pc \notin {"idle", "direct", "direct_done"}) =>
    /\ pc = "rejected"
    /\ outcome.state = "rejected"
    /\ outcome.err.text = "API key not configured. Please check your environment variables."
    /\ error = outcome.err
    /\ isLoading = FALSE
    /\ log = <<>>
    /\ net = {}
    /\ sub = "none"

C19_Witness ==
  /\ ~apiKey
  /\ pc = "rejected"
  /\ error.text = "API key not configured. Please check your environment variables."
  /\ log = <<>>

\* C16 as claimed: in a run with visuals every image-client call after the first one is
\* issued when a 1-second delay elapses, so that no two image calls are issued back to
\* back and k calls are separated by k-1 delays.
C16_DelayBetweenImageCalls ==
  [][(gen.generateVisuals /\ pc' \in {"character", "scenario"} /\ sub' = "img_issue"
        /\ sub # "img_issue") =>
       sub = "delay"]_vars

\* C18: every invocation of generateWorldContent, whatever a previous run left in the
\* slots, has all 10 slots at {loading:false, completed:false, failed:false} from its
\* start up to and including its first external request.
C18_EveryRunStartsReset ==
  (run.n >= 1 /\ (log = <<>> \/ (Len(log) = 1 /\ log[1].done = "pending"))) =>
    /\ imageGenerationProgress.concept = FreshRecord
    /\ \A i \in 1..6 : imageGenerationProgress.characters[i] = FreshRecord
    /\ \A i \in 1..3 : imageGenerationProgress.scenarios[i] = FreshRecord
    /\ Len(imageGenerationProgress.characters) = 6
    /\ Len(imageGenerationProgress.scenarios) = 3

\* a second run, started over slots the first run had marked, has its first request out
C18_Witness ==
  /\ run.n = 2
  /\ run.stale
  /\ pc = "narrative"
  /\ Len(log) = 1
  /\ log[1].done = "pending"
  /\ imageGenerationProgress = ResetProgress

IsCharacterCard(b) == b.kind = "character"
IsScenarioCard(b) == b.kind = "scenario"

\* C12: whenever exportWorldToPDF has run on an aggregate whose character list is
\* missing, empty or of any length, it has painted exactly 6 character cards, card i for
\* record i for i up to min(n, 6) and a placeholder after that, no card for a record
\* beyond the sixth, and exactly 3 scenario cards.
C12_SixCardsThreeScenarios ==
  pdfResult.invoked =>
    LET cc == worldData.value.characterConcepts
        n == IF cc.t = "arr" THEN Len(cc.v) ELSE 0
        cards == SelectSeq(pdfResult.doc.blocks, IsCharacterCard)
        scenes == SelectSeq(pdfResult.doc.blocks, IsScenarioCard)
    IN /\ Len(cards) = 6
       /\ \A j \in 1..Len(cards) :
            /\ cards[j].index = j - 1
            /\ cards[j].what = (IF j <= n THEN "r" ELSE "p")
       /\ Len(scenes) = 3
       /\ \A j \in 1..Len(scenes) : scenes[j].index = j - 1

\* a list of two records: two real cards and four placeholders
C12_Witness ==
  /\ pdfResult.invoked
  /\ pdfResult.ok
  /\ worldData.value.characterConcepts = Arr(<<"r", "r">>)
  /\ Len(SelectSeq(pdfResult.doc.blocks, IsCharacterCard)) = 6
  /\ SelectSeq(pdfResult.doc.blocks, IsCharacterCard)[3].what = "p"

AsciiLetters == {"a", "b", "c", "d", "e", "f", "g", "h", "i", "j", "k", "l", "m", "n", "o",
                 "p", "q", "r", "s", "t", "u", "v", "w", "x", "y", "z"}
AsciiDigits == {"0", "1", "2", "3", "4", "5", "6", "7", "8", "9"}

\* label lowercased, every character that is not a letter or a digit replaced by "_"
IsCategoryPart(part, label) ==
  /\ Len(part) = Len(label)
  /\ \A j \in 1..Len(label) :
       /\ part[j] \in AsciiLetters \cup AsciiDigits \cup {"_"}
       /\ label[j] \in AsciiLetters \cup AsciiDigits => part[j] = label[j]
       /\ (part[j] = "_") = (label[j] \notin AsciiLetters \cup AsciiDigits
                               /\ toLowerCase(label[j]) = label[j])
       /\ toLowerCase(label[j]) # label[j] => part[j] = toLowerCase(label[j])

\* YYYY-MM-DD
IsDateStamp(q) ==
  /\ Len(q) = 10
  /\ \A j \in {1, 2, 3, 4, 6, 7, 9, 10} : q[j] \in AsciiDigits
  /\ q[5] = "-" /\ q[8] = "-"

\* C13 as claimed: the filename is the category part, "_", the date stamp and the
\* extension, with nothing before the category part.
C13_NameStartsWithCategory ==
  pdfResult.ok =>
    LET f == pdfResult.filename
        k == Len(worldData.value.worldType)
    IN /\ Len(f) = k + 15
       /\ IsCategoryPart(SubSeq(f, 1, k), worldData.value.worldType)
       /\ f[k + 1] = "_"
       /\ IsDateStamp(SubSeq(f, k + 2, k + 11))
       /\ SubSeq(f, k + 12, k + 15) = <<".", "p", "d", "f">>

\* C13 amended: the filename returned by exportWorldToPDF is "world_", then the category
\* label lowercased with every character other than a letter or digit replaced by "_",
\* then "_", the date stamp YYYY-MM-DD and ".pdf".
C13_WorldPrefixedName ==
  pdfResult.ok =>
    LET f == pdfResult.filename
        k == Len(worldData.value.worldType)
    IN /\ Len(f) = k + 21
       /\ SubSeq(f, 1, 6) = <<"w", "o", "r", "l", "d", "_">>
       /\ IsCategoryPart(SubSeq(f, 7, k + 6), worldData.value.worldType)
       /\ f[k + 7] = "_"
       /\ IsDateStamp(SubSeq(f, k + 8, k + 17))
       /\ SubSeq(f, k + 18, k + 21) = <<".", "p", "d", "f">>

\* 'Post-Apocalyptic' exported on 9 February 2024
C13_Witness ==
  /\ pdfResult.ok
  /\ worldData.value.worldType =
       <<"P", "o", "s", "t", "-", "A", "p", "o", "c", "a", "l", "y", "p", "t", "i", "c">>
  /\ pdfResult.filename =
       <<"w", "o", "r", "l", "d", "_", "p", "o", "s", "t", "_", "a", "p", "o", "c", "a", "l",
         "y", "p", "t", "i", "c", "_", "2", "0", "2", "4", "-", "0", "2", "-", "0", "9",
         ".", "p", "d", "f">>

\* C14: whenever the PDF export of a click fails (the exporter did not load, threw, or the
\* save threw) the text exporter is loaded and invoked on the same world data; when it
\* succeeds the status set is a success naming the text file; an error status is set
\* only when the text fallback failed as well.
C14_TextFallback ==
  /\ [](exportPc = "import_text" => (~pdfResult.ok /\ isExporting))
  /\ []((exports >= 1 /\ exportPc = "idle" /\ ~pdfResult.ok) =>
          /\ textCall.loaded => (textCall.invoked /\ textCall.data = worldData)
          /\ textCall.ok => textCall.invoked)
  /\ [](exportStatus.type = "error" => (~pdfResult.ok /\ ~textCall.ok /\ exportPc = "idle"))
  /\ [][(exportPc = "import_pdf" /\ exportPc' # "import_pdf" /\ ~pdfResult'.ok) =>
          exportPc' = "import_text"]_vars
  /\ [][(exportPc = "import_text" /\ exportPc' = "idle") =>
          IF textCall'.ok
          THEN /\ exportStatus'.type = "success"
               /\ exportStatus'.message = "World exported as text file:"
               /\ exportStatus'.filename = textCall'.filename
               /\ SubSeq(exportStatus'.filename, Len(exportStatus'.filename) - 3,
                         Len(exportStatus'.filename)) = <<".", "t", "x", "t">>
          ELSE exportStatus'.type = "error"]_vars

\* the PDF exporter loaded but its save threw, and the text file was written
C14_Witness ==
  /\ exports = 1
  /\ exportPc = "idle"
  /\ pdfResult.invoked
  /\ ~pdfResult.ok
  /\ textCall.invoked
  /\ textCall.data = worldData
  /\ textCall.ok
  /\ exportStatus.type = "success"
  /\ exportStatus.filename = textCall.filename
  /\ ~isExporting

\* the character section WorldDisplay renders for the aggregate a run resolved with
ShownCharacters == characterSection([t |-> "arr", v |-> outcome.value.characterConcepts])

\* C20 as claimed: for a character list of any length n the section shows exactly 6
\* entries, min(n,6) real cards followed by 6 - min(n,6) placeholder cards.
C20_AlwaysSixEntries ==
  pc = "resolved" =>
    LET n == Len(outcome.value.characterConcepts)
        k == IF n <= 6 THEN n ELSE 6
    IN /\ ShownCharacters.rendered
       /\ Len(ShownCharacters.cards) = 6
       /\ \A j \in 1..Len(ShownCharacters.cards) :
            ShownCharacters.cards[j] = (IF j <= k THEN "r" ELSE "p")

\* C20 amended: for a list of n >= 1 entries whose first six are records the section
\* shows exactly 6 entries, min(n,6) real cards followed by 6 - min(n,6) placeholders;
\* for an empty list the section is not rendered; a null entry among the first six
\* makes the render throw.
C20_SixEntriesWhenShown ==
  pc = "resolved" =>
    LET cc == outcome.value.characterConcepts
        n == Len(cc)
        k == IF n <= 6 THEN n ELSE 6
    IN IF n = 0 THEN ~ShownCharacters.rendered /\ ~ShownCharacters.thrown
       ELSE IF \E j \in 1..k : cc[j] = "n"
       THEN ShownCharacters.thrown /\ ~ShownCharacters.rendered
       ELSE /\ ShownCharacters.rendered
            /\ Len(ShownCharacters.cards) = 6
            /\ \A j \in 1..Len(ShownCharacters.cards) :
                 ShownCharacters.cards[j] = (IF j <= k THEN "r" ELSE "p")

\* two records returned: two real cards and four placeholders
C20_Witness ==
  /\ pc = "resolved"
  /\ outcome.value.characterConcepts = <<"r", "r">>
  /\ ShownCharacters.rendered
  /\ ShownCharacters.cards = <<"r", "r", "p", "p", "p", "p">>

\* the image request answered with a success status and image bytes
AnsweredWithBytes ==
  /\ iresp.net = "ok"
  /\ iresp.status >= 200 /\ iresp.status <= 299
  /\ iresp.json
  /\ iresp.predictions = "bytes"

\* C21: within one generateImageWithFallback call the image request is issued at most
\* once and only with a credential; the art-direction text request is issued at most
\* once, after the image request if there is one, and exactly when no image bytes were
\* obtained (no credential, transport failure, non-success status, unreadable or missing
\* payload); the result is the Image variant exactly when the image request was answered
\* with image bytes.
C21_FallbackChain ==
  pc \in {"direct", "direct_done"} =>
    LET images == {j \in 1..Len(log) : log[j].endpoint = "image"}
        briefs == {j \in 1..Len(log) : log[j].purpose = "description"}
        answered == iresp # NoImgResp
    IN /\ Cardinality(images) <= 1
       /\ images # {} => apiKey
       /\ answered => (images = {1} /\ log[1].done # "pending")
       /\ Cardinality(briefs) <= 1
       /\ \A j \in briefs : log[j].endpoint = "text" /\ j = Len(log)
       /\ briefs # {} => (~apiKey \/ (answered /\ ~AnsweredWithBytes))
       /\ (answered /\ AnsweredWithBytes) => (briefs = {} /\ pc = "direct_done")
       /\ pc = "direct_done" =>
            /\ imgDone.calls = 1
            /\ apiKey => answered
            /\ (briefs # {}) = (~apiKey \/ ~AnsweredWithBytes)
            /\ imgDone.result.isImage = (apiKey /\ AnsweredWithBytes)
            /\ imgDone.result.isDescription = ~imgDone.result.isImage

\* a credential is configured, the image endpoint answered 200 without image bytes, and
\* the call returned the brief obtained by its one text request
C21_Witness ==
  /\ pc = "direct_done"
  /\ apiKey
  /\ iresp = ImgResp("ok", StatusOk, TRUE, "nobytes")
  /\ Len(log) = 2
  /\ log[1].endpoint = "image" /\ log[1].done = "failed"
  /\ log[2].purpose = "description" /\ log[2].done = "ok"
  /\ imgDone.result.isDescription
  /\ imgDone.result.brief

\* the echo of the Description returned by the direct call, spelled out
ReturnedEcho == EchoText(imgDone.result.prompt, ptext)

FirstChars(text, n) == SubSeq(text, 1, IF Len(text) <= n THEN Len(text) ELSE n)

\* C22 as claimed: whenever generateImageWithFallback returns a Description, with the
\* fallback text call succeeded or failed, its prompt echo is exactly the first 200
\* characters of the original prompt, the whole prompt when it is shorter, with nothing
\* added.
C22_EchoIsFirst200 ==
  (pc = "direct_done" /\ imgDone.result.isDescription) =>
    ReturnedEcho = FirstChars(ptext, 200)

\* C22 amended: whenever generateImageWithFallback returns a Description, with the
\* fallback text call succeeded or failed, its prompt echo is the first 200 characters of
\* the original prompt (the whole prompt when it is shorter) followed by '...', which is
\* appended whether or not the prompt was cut.
C22_EchoIsFirst200AndEllipsis ==
  (pc = "direct_done" /\ imgDone.result.isDescription) =>
    /\ imgDone.result.prompt.src = imgDone.prompt
    /\ ReturnedEcho = FirstChars(ptext, 200) \o <<".", ".", ".">>

\* a prompt of 201 characters whose fallback text call succeeded: the echo has 203
C22_Witness ==
  /\ pc = "direct_done"
  /\ imgDone.result.isDescription
  /\ imgDone.result.brief
  /\ Len(ptext) = 201
  /\ Len(ReturnedEcho) = 203
  /\ ReturnedEcho[200] = ptext[200]
  /\ ReturnedEcho[201] = "."

\* the blocks the exporter painted under a page-break check
CheckedBlocks ==
  {j \in 1..Len(pdfResult.doc.blocks) :
     pdfResult.doc.blocks[j].kind \notin {"banner", "footer"}}

\* C23: before each section header, text line, character card, scenario card, idea and
\* customization option a new page is started exactly when currentY plus the requested
\* height exceeds pageHeight - margin (277); pages change in no other way; every block
\* is painted, down to its lowest mark, at or above 277 and above the footer rule at
\* pageHeight - 15.
C23_PageBreakExactlyOnOverflow ==
  pdfResult.invoked =>
    \A j \in CheckedBlocks :
      LET b == pdfResult.doc.blocks[j]
      IN /\ j > 1
         /\ b.before = pdfResult.doc.blocks[j - 1].page
         /\ b.need \in {7, 12, 15, 20, 25}
         /\ (b.from + b.need > 277) => (b.page = b.before + 1 /\ b.y = 20)
         /\ (b.from + b.need <= 277) => (b.page = b.before /\ b.y = b.from)
         /\ b.y + b.need <= 277
         /\ b.y + Extent(b.kind) <= 277
         /\ b.y + Extent(b.kind) < 297 - 15

\* a scenario card met the limit with room for less than its 20 mm and opens page 2,
\* while the card before it was painted where currentY stood
C23_Witness ==
  /\ pdfResult.ok
  /\ \E j \in CheckedBlocks :
       LET b == pdfResult.doc.blocks[j]
           a == pdfResult.doc.blocks[j - 1]
       IN /\ b.kind = "scenario" /\ a.kind = "scenario"
          /\ b.from + 20 > 277 /\ b.from <= 277
          /\ b.page = 2 /\ b.y = 20
          /\ a.page = 1 /\ a.y = a.from /\ a.y + 23 = b.from

IsSequence(x) == DOMAIN x = 1..Len(x)

\* the field of the aggregate built from what a list call returned
ListFieldOk(returned, field) ==
  /\ IsSequence(field)
  /\ returned.t = "arr" => field = returned.v
  /\ returned.t # "arr" => field = <<>>

\* C24: in every aggregate returned by generateWorldContent the idea list, the
\* customization list and the character list are sequences; a list call that returned
\* anything but an array (raw text after a JSON parse failure, a parsed object, number,
\* string or null, or undefined) leaves the empty sequence in its field, and an array is
\* kept as returned.
C24_ListsAreSequences ==
  pc = "resolved" =>
    /\ gen.gameBookIdeas.t \in {"arr", "str", "obj", "num", "null", "undef"}
    /\ ListFieldOk(gen.gameBookIdeas, outcome.value.gameBookIdeas)
    /\ ListFieldOk(gen.customizationOptions, outcome.value.customizationOptions)
    /\ ListFieldOk(gen.characterConcepts, outcome.value.characterConcepts)

\* the idea call returned raw text that did not parse, the customization call a number,
\* the character call two records
C24_Witness ==
  /\ pc = "resolved"
  /\ gen.gameBookIdeas = Str(<<"[", "r">>)
  /\ gen.customizationOptions = Num
  /\ outcome.value.gameBookIdeas = <<>>
  /\ outcome.value.customizationOptions = <<>>
  /\ outcome.value.characterConcepts = <<"r", "r">>

\* the requests of the run sent to endpoint for purpose
Requests(endpoint, purpose) ==
  Cardinality({j \in 1..Len(log) : log[j].endpoint = endpoint /\ log[j].purpose = purpose})

\* each image-client call of a run makes one image request
ImageClientCalls ==
  Requests("image", "concept") + Requests("image", "character") + Requests("image", "scenario")

\* C25 as claimed: a successful run with visuals issues exactly 1 narrative call, 3 list
\* calls and 2 map calls in its text phase, and at most 10 image-client calls (1 concept,
\* at most 6 character, 3 scenario) whatever the number of character records.
C25_OneThreeTwoAndTen ==
  (pc = "resolved" /\ gen.generateVisuals) =>
    /\ Requests("text", "narrative") = 1
    /\ Requests("text", "ideas") + Requests("text", "custom") + Requests("text", "chars") = 3
    /\ Requests("text", "maps") = 2
    /\ ImageClientCalls <= 10
    /\ Requests("image", "concept") = 1
    /\ Requests("image", "character") <= 6
    /\ Requests("image", "scenario") <= 3

\* C25 amended: a successful run with visuals issues exactly 1 narrative call, 3 list
\* calls (ideas, customization, characters) and 1 map call in its text phase, 5 in all,
\* and at most 10 image-client calls: 1 concept, min(n, 6) character and 3 scenario for
\* n character records, or only those before a null record among the first 6.
C25_FiveTextCallsAtMostTenImages ==
  (pc = "resolved" /\ gen.generateVisuals) =>
    LET cc == outcome.value.characterConcepts
        k == IF Len(cc) <= 6 THEN Len(cc) ELSE 6
        nulls == {j \in 1..k : cc[j] = "n"}
    IN /\ Requests("text", "narrative") = 1
       /\ Requests("text", "ideas") = 1
       /\ Requests("text", "custom") = 1
       /\ Requests("text", "chars") = 1
       /\ Requests("text", "maps") = 1
       /\ ImageClientCalls <= 10
       /\ ImageClientCalls = imgDone.calls
       /\ Requests("image", "concept") = 1
       /\ IF nulls = {}
          THEN Requests("image", "character") = k /\ Requests("image", "scenario") = 3
          ELSE /\ \A j \in nulls : Requests("image", "character") < j
               /\ Requests("image", "scenario") = 0

\* seven character records came back: five text calls and ten image-client calls
C25_Witness ==
  /\ pc = "resolved"
  /\ gen.generateVisuals
  /\ Len(outcome.value.characterConcepts) = 7
  /\ Requests("text", "maps") = 1
  /\ Requests("image", "character") = 6
  /\ ImageClientCalls = 10

\* the run has started and has not settled
Running == pc \in TextStepSet \cup VisualStepSet

\* C26: isLoading is true from the start of a generateWorldContent run for as long as
\* one of its requests or delays is pending, and false once the run has settled, on every
\* path: success without and with visuals, missing credential, text-phase failure, and
\* an exception caught inside visual generation.
C26_LoadingExactlyWhileRunning ==
  /\ Running => (isLoading /\ outcome.state = "pending")
  /\ (InRun /\ (net # {} \/ sub \in {"text_wait", "img_wait", "delay"})) => Running
  /\ pc \in {"resolved", "rejected"} =>
       /\ ~isLoading
       /\ net = {}
       /\ outcome.state = pc
  /\ pc = "idle" => ~isLoading

\* a null character record made prompt construction throw inside the visual phase; the
\* exception was caught there and the run resolved with isLoading false
C26_Witness ==
  /\ pc = "resolved"
  /\ ~isLoading
  /\ gen.generateVisuals
  /\ outcome.value.characterConcepts = <<"n">>
  /\ outcome.value.scenarioVisuals = <<>>
  /\ Last(log).purpose = "concept"

\* the 10 visual slots
AllSlots ==
  <<imageGenerationProgress.concept>> \o imageGenerationProgress.characters
    \o imageGenerationProgress.scenarios

\* C27: in every state of a generation run at most one of the 10 visual slots has
\* loading true, no slot has loading and completed both true, and a slot with failed
\* true has completed true.
C27_SlotsWellFormed ==
  /\ Len(AllSlots) = 10
  /\ Cardinality({j \in 1..Len(AllSlots) : AllSlots[j].loading}) <= 1
  /\ \A j \in 1..Len(AllSlots) :
       /\ ~(AllSlots[j].loading /\ AllSlots[j].completed)
       /\ AllSlots[j].failed => AllSlots[j].completed

\* the first scenario call is under way: its slot is the only one loading, the concept
\* slot is completed and failed, the two character slots completed and not failed
C27_Witness ==
  /\ pc = "scenario"
  /\ sub = "img_wait"
  /\ imageGenerationProgress.scenarios[1] = Slot(TRUE, FALSE, FALSE)
  /\ imageGenerationProgress.concept = Slot(FALSE, TRUE, TRUE)
  /\ imageGenerationProgress.characters[1] = Slot(FALSE, TRUE, FALSE)
  /\ imageGenerationProgress.characters[2] = Slot(FALSE, TRUE, FALSE)
  /\ imageGenerationProgress.characters[3] = FreshSlot

\* C28 as claimed: once a generateWorldContent run has settled, resolved or rejected, no
\* visual slot is left with loading true, also when an exception arose in the visual
\* block after a slot was marked loading.
C28_NoSlotLoadingOnceSettled ==
  pc \in {"resolved", "rejected"} =>
    \A j \in 1..Len(AllSlots) : ~AllSlots[j].loading

C30_TimerClearsOwnStatusOnly ==
  [][\A t \in timers :
       (timerFires(t) /\ exportStatus # NoStatus) => exportStatus.by = t.by]_vars

====
